---- MODULE Spec2Model ----
(***************************************************************************)
(* Model of the website generation pipeline of mini-website-ai-builder:    *)
(* AiService.generateWebsite (retry loop, strategy selection, multi-step   *)
(* generation, validation, persistence, fallback synthesis),               *)
(* ComplexValidationService and GenerationLogService.                      *)
(*                                                                         *)
(* generateWebsite is an async function.  Every await of the code (model   *)
(* call, inter-step delay, backoff delay, website create, log create) is   *)
(* one action whose outcome is drawn from the outcomes the collaborator    *)
(* can produce; the synchronous code between two awaits is carried out by  *)
(* the actions Validate, Catch and StartAttempt, which the program counter *)
(* forces in the order of the code.                                        *)
(***************************************************************************)
EXTENDS Integers, Sequences, FiniteSets, TLC

VARIABLES
    pc,             \* position of generateWebsite
    dto,            \* the GenerateWebsiteDto of the request
    complexity,     \* result of analyzePromptComplexity
    attempt,        \* loop variable `attempt`
    lastError,      \* local `lastError`
    stepIdx,        \* index of the current step in generateComplexWebsite
    results,        \* local `results` of generateComplexWebsite
    result,         \* local `result`: the parsed / combined artifact
    thrown,         \* the error travelling to the catch block
    created,        \* the record returned by prisma.website.create
    websites,       \* rows of the website table, in creation order
    generationLogs, \* rows of the generationLog table
    outcome,        \* what generateWebsite gave its caller
    trace,          \* history: the calls the request has made, in order
    validationResult, \* local `validationResult` of the loop body
    peer,           \* the locals of a second call of generateWebsite while it is suspended
    running,        \* which of the two calls the variables above belong to
    table,          \* the website table as WebsiteService reads and writes it: id -> row
    clock,          \* the database's time and id source
    calls,          \* the WebsiteService calls in flight, by caller
    response,       \* local `response`: the text of the model's completion
    cleanedResponse \* local `cleanedResponse`

\* the variables of WebsiteService
websiteVars == <<table, clock, calls>>

\* the text locals of a model call
cleanerVars == <<response, cleanedResponse>>

\* the variables of the generation pipeline
pipelineVars == <<pc, dto, complexity, attempt, lastError, stepIdx, results, result,
                  thrown, created, websites, generationLogs, outcome, trace,
                  validationResult, peer, running, response, cleanedResponse>>

vars == <<pc, dto, complexity, attempt, lastError, stepIdx, results, result,
          thrown, created, websites, generationLogs, outcome, trace,
          validationResult, peer, running, table, clock, calls,
          response, cleanedResponse>>

-----------------------------------------------------------------------------
(* JavaScript values *)

Undef == [t |-> "undefined"]
Str(s) == [t |-> "string", v |-> s]
Bool(b) == [t |-> "boolean", v |-> b]
Num(n) == [t |-> "number", v |-> n]
Obj(f) == [t |-> "object", v |-> f]
Arr(s) == [t |-> "array", v |-> s]
EmptyMap == [k \in {} |-> Undef]
EmptyObj == Obj(EmptyMap)

\* JavaScript truthiness, as tested by `!x` and `x || y`
Truthy(x) ==
    CASE x.t = "undefined" -> FALSE
      [] x.t = "string" -> x.v # ""
      [] x.t = "boolean" -> x.v
      [] x.t = "number" -> x.v # 0
      [] OTHER -> TRUE

\* o?.k : undefined when o has no property k
Get(o, k) == IF o.t = "object" /\ k \in DOMAIN o.v THEN o.v[k] ELSE Undef

\* a || b
OrElse(a, b) == IF Truthy(a) THEN a ELSE b

\* { ...o } : the own enumerable properties of o; nothing for undefined
Spread(o) == IF o.t = "object" THEN o.v ELSE EmptyMap

\* Object.keys(o)
Keys(o) == DOMAIN Spread(o)

\* mutant of Merge: on a key of both objects the value of the first one stays
MergeFirstWins(a, b) == [k \in DOMAIN a \cup DOMAIN b |-> IF k \in DOMAIN a THEN a[k] ELSE b[k]]

\* { ...a, ...b } on property maps: the later source wins on a shared key
Merge(a, b) == [k \in DOMAIN a \cup DOMAIN b |-> IF k \in DOMAIN b THEN b[k] ELSE a[k]]

\* s.includes(k)
Includes(s, k) ==
    \E i \in 1..(Len(s) - Len(k) + 1) : SubSeq(s, i, i + Len(k) - 1) = k

Upper == "ABCDEFGHIJKLMNOPQRSTUVWXYZ"
Lower == "abcdefghijklmnopqrstuvwxyz"

\* the lower-case letter of every upper-case letter
LowerOf ==
    [c \in {SubSeq(Upper, i, i) : i \in 1..26} |->
        LET i == CHOOSE j \in 1..26 : SubSeq(Upper, j, j) = c IN SubSeq(Lower, i, i)]

LowerChar(c) == IF c \in DOMAIN LowerOf THEN LowerOf[c] ELSE c

RECURSIVE ToLowerCase(_)
\* s.toLowerCase(), letter by letter
ToLowerCase(s) ==
    IF Len(s) = 0 THEN ""
    ELSE IF Len(s) = 1 THEN LowerChar(s)
    ELSE LET h == Len(s) \div 2
         IN ToLowerCase(SubSeq(s, 1, h)) \o ToLowerCase(SubSeq(s, h + 1, Len(s)))

\* arr.includes(x) on a sequence
SeqIncludes(seq, x) == \E i \in 1..Len(seq) : seq[i] = x

\* new Error(message) / new BadRequestException(message)
Err(msg) == [message |-> msg]
NoError == [none |-> TRUE]

-----------------------------------------------------------------------------
(* AiService.analyzePromptComplexity *)

\* the rule table, in the order of the if statements
ComplexityRules == <<
    [k1 |-> "e-commerce", k2 |-> "shopping",       tag |-> "ecommerce",        w |-> 3],
    [k1 |-> "cart",       k2 |-> "checkout",       tag |-> "shopping_cart",    w |-> 2],
    [k1 |-> "product",    k2 |-> "catalog",        tag |-> "product_catalog",  w |-> 2],
    [k1 |-> "carousel",   k2 |-> "slider",         tag |-> "carousel",         w |-> 2],
    [k1 |-> "modal",      k2 |-> "popup",          tag |-> "modal",            w |-> 1],
    [k1 |-> "animation",  k2 |-> "hover",          tag |-> "animations",       w |-> 2],
    [k1 |-> "dashboard",  k2 |-> "admin",          tag |-> "dashboard",        w |-> 3],
    [k1 |-> "multi-page", k2 |-> "multiple pages", tag |-> "multi_page",       w |-> 2],
    [k1 |-> "gradient",   k2 |-> "custom",         tag |-> "advanced_styling", w |-> 1],
    [k1 |-> "responsive", k2 |-> "mobile",         tag |-> "responsive",       w |-> 1],
    [k1 |-> "login",      k2 |-> "auth",           tag |-> "authentication",   w |-> 2],
    [k1 |-> "user",       k2 |-> "profile",        tag |-> "user_management",  w |-> 2] >>

\* mutant of RuleMatches: the prompt is searched as written
RuleMatchesCaseSensitive(rule, prompt) ==
    Includes(prompt, rule.k1) \/ Includes(prompt, rule.k2)

\* the condition of one if statement of lines 110-164
RuleMatches(rule, prompt) ==
    Includes(ToLowerCase(prompt), rule.k1) \/ Includes(ToLowerCase(prompt), rule.k2)

RECURSIVE ScanRules(_, _, _, _)
ScanRules(prompt, i, features, score) ==
    IF i > Len(ComplexityRules) THEN [features |-> features, score |-> score]
    ELSE IF RuleMatches(ComplexityRules[i], prompt)
         THEN ScanRules(prompt, i + 1, Append(features, ComplexityRules[i].tag),
                        score + ComplexityRules[i].w)
         ELSE ScanRules(prompt, i + 1, features, score)

\* mutant of LevelOf: the upper boundary is exclusive
LevelOfExclusive(score) ==
    IF score > 8 THEN "complex" ELSE IF score >= 4 THEN "moderate" ELSE "simple"

\* lines 167-169
LevelOf(score) ==
    IF score >= 8 THEN "complex" ELSE IF score >= 4 THEN "moderate" ELSE "simple"

AnalyzePromptComplexity(prompt) ==
    LET s == ScanRules(prompt, 1, <<>>, 0)
    IN [level |-> LevelOf(s.score), features |-> s.features, score |-> s.score]

-----------------------------------------------------------------------------
(* ComplexValidationService *)

RECURSIVE SetToSeq(_)
\* the keys of a property map in the order the model enumerates them
SetToSeq(S) ==
    IF S = {} THEN <<>>
    ELSE LET x == CHOOSE y \in S : TRUE IN <<x>> \o SetToSeq(S \ {x})

RECURSIVE Stringify(_)
RECURSIVE StringifyProps(_, _)
RECURSIVE StringifyItems(_)
\* JSON.stringify(x) for strings, booleans and objects of them; a property
\* whose value is undefined is left out, as JSON.stringify does
Stringify(x) ==
    CASE x.t = "string" -> "\"" \o x.v \o "\""
      [] x.t = "boolean" -> IF x.v THEN "true" ELSE "false"
      [] x.t = "number" -> ToString(x.v)
      [] x.t = "array" -> "[" \o StringifyItems(x.v) \o "]"
      [] x.t = "object" ->
            "{" \o StringifyProps(x.v, SetToSeq({k \in DOMAIN x.v : x.v[k].t # "undefined"})) \o "}"
      [] OTHER -> "null"
StringifyItems(xs) ==
    IF xs = <<>> THEN ""
    ELSE Stringify(Head(xs)) \o (IF Len(xs) > 1 THEN "," ELSE "") \o StringifyItems(Tail(xs))
StringifyProps(f, ks) ==
    IF ks = <<>> THEN ""
    ELSE "\"" \o Head(ks) \o "\":" \o Stringify(f[Head(ks)])
         \o (IF Len(ks) > 1 THEN "," ELSE "") \o StringifyProps(f, Tail(ks))

ValidationOk(errors, warnings, score) ==
    [raised |-> FALSE, error |-> NoError, isValid |-> errors = <<>>,
     errors |-> errors, warnings |-> warnings, score |-> score, suggestions |-> <<>>]

\* a TypeError leaves the validator
ValidationRaised(msg) ==
    [raised |-> TRUE, error |-> Err(msg), isValid |-> FALSE,
     errors |-> <<>>, warnings |-> <<>>, score |-> 0, suggestions |-> <<>>]

\* mutant of ValidateBasicStructure: an empty components map counts as present
ValidateBasicStructureEmptyMapOk(content) ==
    LET nextjsContent == Get(content, "nextjsContent")
        page == Get(nextjsContent, "page.tsx")
        components == Get(nextjsContent, "components")
        noComponents == ~Truthy(components)
    IN  IF ~Truthy(nextjsContent)
        THEN ValidationOk(<<"Missing nextjsContent">>, <<>>, 0)
        ELSE ValidationOk(
               (IF ~Truthy(page) THEN <<"Missing main page.tsx">> ELSE <<>>)
               \o (IF ~Truthy(Get(nextjsContent, "layout.tsx")) THEN <<"Missing layout.tsx">> ELSE <<>>)
               \o (IF ~Truthy(Get(nextjsContent, "globals.css")) THEN <<"Missing globals.css">> ELSE <<>>)
               \o (IF noComponents THEN <<"Missing components">> ELSE <<>>),
               (IF Truthy(page) /\ page.t = "string" /\ Len(page.v) < 100
                THEN <<"Main page content seems too short">> ELSE <<>>)
               \o (IF ~noComponents /\ Cardinality(Keys(components)) < 3
                   THEN <<"Consider adding more components for better structure">> ELSE <<>>),
               (IF Truthy(page) THEN 10 ELSE 0)
               + (IF Truthy(Get(nextjsContent, "layout.tsx")) THEN 10 ELSE 0)
               + (IF Truthy(Get(nextjsContent, "globals.css")) THEN 5 ELSE 0)
               + (IF noComponents THEN 0 ELSE 15))

ValidateBasicStructure(content) ==
    LET nextjsContent == Get(content, "nextjsContent")
        page == Get(nextjsContent, "page.tsx")
        components == Get(nextjsContent, "components")
        noComponents == ~Truthy(components) \/ Keys(components) = {}
    IN  IF ~Truthy(nextjsContent)
        THEN ValidationOk(<<"Missing nextjsContent">>, <<>>, 0)
        ELSE ValidationOk(
               (IF ~Truthy(page) THEN <<"Missing main page.tsx">> ELSE <<>>)
               \o (IF ~Truthy(Get(nextjsContent, "layout.tsx")) THEN <<"Missing layout.tsx">> ELSE <<>>)
               \o (IF ~Truthy(Get(nextjsContent, "globals.css")) THEN <<"Missing globals.css">> ELSE <<>>)
               \o (IF noComponents THEN <<"Missing components">> ELSE <<>>),
               (IF Truthy(page) /\ page.t = "string" /\ Len(page.v) < 100
                THEN <<"Main page content seems too short">> ELSE <<>>)
               \o (IF ~noComponents /\ Cardinality(Keys(components)) < 3
                   THEN <<"Consider adding more components for better structure">> ELSE <<>>),
               (IF Truthy(page) THEN 10 ELSE 0)
               + (IF Truthy(Get(nextjsContent, "layout.tsx")) THEN 10 ELSE 0)
               + (IF Truthy(Get(nextjsContent, "globals.css")) THEN 5 ELSE 0)
               + (IF noComponents THEN 0 ELSE 15))

HasTypeScriptProps(code) ==
    Includes(code, "interface") \/ Includes(code, "type ") \/ Includes(code, ": {") \/ Includes(code, "Props")
HasStateManagement(code) ==
    Includes(code, "useState") \/ Includes(code, "useReducer") \/ Includes(code, "setState")
HasUseEffect(code) ==
    Includes(code, "useEffect") \/ Includes(code, "componentDidMount") \/ Includes(code, "componentDidUpdate")
HasErrorHandling(code) ==
    Includes(code, "try") \/ Includes(code, "catch") \/ Includes(code, "Error") \/ Includes(code, "error")
HasAccessibilityFeatures(code) ==
    Includes(code, "aria-") \/ Includes(code, "role=") \/ Includes(code, "alt=") \/ Includes(code, "tabIndex")
IsResponsive(code) ==
    Includes(code, "sm:") \/ Includes(code, "md:") \/ Includes(code, "lg:") \/ Includes(code, "xl:")
    \/ Includes(code, "@media") \/ Includes(code, "responsive")

ValidateSingleComponent(name, code) ==
    [hasProps |-> HasTypeScriptProps(code), hasState |-> HasStateManagement(code),
     hasEffects |-> HasUseEffect(code), hasErrorHandling |-> HasErrorHandling(code),
     hasAccessibility |-> HasAccessibilityFeatures(code), isResponsive |-> IsResponsive(code)]

\* the warnings and the score one loop iteration of validateComponents adds
ComponentWarnings(name, cv, cx) ==
    (IF ~cv.hasProps /\ cx.level = "complex"
     THEN <<"Component " \o name \o " should have proper TypeScript props">> ELSE <<>>)
    \o (IF ~cv.hasState /\ SeqIncludes(cx.features, "interactive")
        THEN <<"Component " \o name \o " might need state management">> ELSE <<>>)
    \o (IF ~cv.hasAccessibility
        THEN <<"Component " \o name \o " should include accessibility features">> ELSE <<>>)
    \o (IF ~cv.isResponsive
        THEN <<"Component " \o name \o " should be responsive">> ELSE <<>>)

ComponentScore(cv) ==
    (IF cv.hasProps THEN 5 ELSE 0) + (IF cv.hasState THEN 5 ELSE 0)
    + (IF cv.hasEffects THEN 5 ELSE 0) + (IF cv.hasErrorHandling THEN 5 ELSE 0)
    + (IF cv.hasAccessibility THEN 5 ELSE 0) + (IF cv.isResponsive THEN 5 ELSE 0)

RECURSIVE ComponentLoop(_, _, _)
ComponentLoop(components, names, cx) ==
    IF names = <<>> THEN [warnings |-> <<>>, score |-> 0]
    ELSE LET cv == ValidateSingleComponent(Head(names), components.v[Head(names)].v)
             rest == ComponentLoop(components, Tail(names), cx)
         IN [warnings |-> ComponentWarnings(Head(names), cv, cx) \o rest.warnings,
             score |-> ComponentScore(cv) + rest.score]

\* mutant of RequiredComponents: only the header is required
RequiredComponentsHeaderOnly == <<"Header">>

\* line 160
RequiredComponents == <<"Header", "Footer">>

ValidateComponents(content, cx) ==
    LET nextjsContent == Get(content, "nextjsContent")
        components == Get(nextjsContent, "components")
        loop == ComponentLoop(components, SetToSeq(Keys(components)), cx)
        hasRequired(r) == \E name \in Keys(components) : Includes(name, r)
        missing == SelectSeq(RequiredComponents, LAMBDA r : ~hasRequired(r))
        missingErrors ==
            (IF Len(missing) >= 1 THEN <<"Missing required component: " \o missing[1]>> ELSE <<>>)
            \o (IF Len(missing) >= 2 THEN <<"Missing required component: " \o missing[2]>> ELSE <<>>)
    IN  IF nextjsContent.t = "undefined"
        THEN ValidationRaised("Cannot read properties of undefined (reading 'components')")
        ELSE IF ~Truthy(components)
        THEN ValidationOk(<<>>, <<>>, 0)
        ELSE ValidationOk(
               IF cx.level = "complex" THEN missingErrors ELSE <<>>,
               loop.warnings, loop.score)

\* hasComponent(content, componentName)
HasComponent(content, componentName) ==
    /\ Truthy(Get(content, "components"))
    /\ \E name \in Keys(Get(content, "components")) :
          Includes(ToLowerCase(name), ToLowerCase(componentName))

ValidateEcommerceFeatures(content) ==
    LET hasProductCard == HasComponent(content, "ProductCard") \/ HasComponent(content, "Product")
        hasCart == HasComponent(content, "Cart") \/ HasComponent(content, "ShoppingCart")
        hasCheckout == HasComponent(content, "Checkout") \/ HasComponent(content, "Payment")
    IN ValidationOk(
         (IF ~hasProductCard THEN <<"Missing product display component for e-commerce">> ELSE <<>>)
         \o (IF ~hasCart THEN <<"Missing shopping cart component for e-commerce">> ELSE <<>>),
         IF ~hasCheckout THEN <<"Consider adding checkout component for complete e-commerce flow">> ELSE <<>>,
         (IF hasProductCard THEN 10 ELSE 0) + (IF hasCart THEN 10 ELSE 0)
         + (IF hasCheckout THEN 10 ELSE 0))

ValidateInteractiveFeatures(content) ==
    LET hasCarousel == HasComponent(content, "Carousel") \/ HasComponent(content, "Slider")
        hasModal == HasComponent(content, "Modal") \/ HasComponent(content, "Dialog")
    IN ValidationOk(
         IF ~hasCarousel THEN <<"Missing carousel/slider component">> ELSE <<>>,
         IF ~hasModal THEN <<"Consider adding modal component for better UX">> ELSE <<>>,
         (IF hasCarousel THEN 10 ELSE 0) + (IF hasModal THEN 5 ELSE 0))

ValidateAuthenticationFeatures(content) ==
    LET hasLogin == HasComponent(content, "Login") \/ HasComponent(content, "SignIn")
        hasRegister == HasComponent(content, "Register") \/ HasComponent(content, "SignUp")
    IN ValidationOk(
         IF ~hasLogin THEN <<"Missing login component for authentication">> ELSE <<>>,
         IF ~hasRegister THEN <<"Consider adding registration component">> ELSE <<>>,
         (IF hasLogin THEN 10 ELSE 0) + (IF hasRegister THEN 5 ELSE 0))

NoValidation == ValidationOk(<<>>, <<>>, 0)

ValidateFeatures(content, cx) ==
    LET nextjsContent == Get(content, "nextjsContent")
        e == IF SeqIncludes(cx.features, "ecommerce")
             THEN ValidateEcommerceFeatures(nextjsContent) ELSE NoValidation
        i == IF SeqIncludes(cx.features, "carousel") \/ SeqIncludes(cx.features, "slider")
             THEN ValidateInteractiveFeatures(nextjsContent) ELSE NoValidation
        a == IF SeqIncludes(cx.features, "authentication")
             THEN ValidateAuthenticationFeatures(nextjsContent) ELSE NoValidation
    IN ValidationOk(e.errors \o i.errors \o a.errors,
                    e.warnings \o i.warnings \o a.warnings,
                    e.score + i.score + a.score)

HasTypeScriptUsage(content) ==
    LET allContent == Stringify(content)
    IN Includes(allContent, "interface") \/ Includes(allContent, "type ") \/ Includes(allContent, ": ")

HasModernReactPatterns(content) ==
    LET allContent == Stringify(content)
    IN Includes(allContent, "useState") \/ Includes(allContent, "useEffect")
       \/ Includes(allContent, "const ") \/ Includes(allContent, "=>")

HasPerformanceOptimizations(content) ==
    LET allContent == Stringify(content)
    IN Includes(allContent, "React.memo") \/ Includes(allContent, "useCallback")
       \/ Includes(allContent, "useMemo") \/ Includes(allContent, "lazy")

ValidateCodeQuality(content) ==
    LET nextjsContent == Get(content, "nextjsContent")
        ts == HasTypeScriptUsage(nextjsContent)
        modern == HasModernReactPatterns(nextjsContent)
        perf == HasPerformanceOptimizations(nextjsContent)
    IN ValidationOk(
         <<>>,
         (IF ~ts THEN <<"Consider using TypeScript for better type safety">> ELSE <<>>)
         \o (IF ~modern THEN <<"Consider using modern React patterns (hooks, functional components)">> ELSE <<>>)
         \o (IF ~perf THEN <<"Consider adding performance optimizations (memo, useCallback)">> ELSE <<>>),
         (IF ts THEN 10 ELSE 0) + (IF modern THEN 10 ELSE 0) + (IF perf THEN 5 ELSE 0))

GenerateSuggestions(cx, errors, warnings) ==
    (IF cx.level = "complex"
     THEN <<"For complex websites, consider breaking down into smaller, focused components",
            "Implement proper state management with Context API or Redux",
            "Add comprehensive error boundaries for better error handling">> ELSE <<>>)
    \o (IF SeqIncludes(cx.features, "ecommerce")
        THEN <<"Add product filtering and search functionality",
               "Implement shopping cart persistence with localStorage",
               "Add user authentication for personalized experience">> ELSE <<>>)
    \o (IF SeqIncludes(cx.features, "responsive")
        THEN <<"Test on multiple device sizes and orientations",
               "Use CSS Grid and Flexbox for complex layouts",
               "Implement touch-friendly interactions for mobile">> ELSE <<>>)
    \o (IF errors # <<>>
        THEN <<"Review the validation errors and ensure all required components are present">> ELSE <<>>)
    \o (IF warnings # <<>>
        THEN <<"Address the warnings to improve code quality and user experience">> ELSE <<>>)

\* mutant of CombineValidations: a warning makes the artifact invalid
CombineValidationsStrict(basic, comp, feat, qual, cx) ==
    LET errors == basic.errors \o comp.errors \o feat.errors \o qual.errors
        warnings == basic.warnings \o comp.warnings \o feat.warnings \o qual.warnings
    IN  IF comp.raised THEN comp
        ELSE [raised |-> FALSE, error |-> NoError,
              isValid |-> Len(errors) = 0 /\ Len(warnings) = 0,
              errors |-> errors, warnings |-> warnings,
              score |-> basic.score + comp.score + feat.score + qual.score,
              suggestions |-> GenerateSuggestions(cx, errors, warnings)]

\* lines 33-63: the four partial results put together
CombineValidations(basic, comp, feat, qual, cx) ==
    LET errors == basic.errors \o comp.errors \o feat.errors \o qual.errors
        warnings == basic.warnings \o comp.warnings \o feat.warnings \o qual.warnings
    IN  IF comp.raised THEN comp
        ELSE [raised |-> FALSE, error |-> NoError, isValid |-> Len(errors) = 0,
              errors |-> errors, warnings |-> warnings,
              score |-> basic.score + comp.score + feat.score + qual.score,
              suggestions |-> GenerateSuggestions(cx, errors, warnings)]

ValidateComplexWebsite(content, cx) ==
    CombineValidations(ValidateBasicStructure(content), ValidateComponents(content, cx),
                       ValidateFeatures(content, cx), ValidateCodeQuality(content), cx)

-----------------------------------------------------------------------------
(* Program constants *)

MaxAttempts == 3
BaseDelay == 2000
StepDelayMs == 500

\* the steps of generateComplexWebsite, in array order
Steps == <<"project_structure", "main_components", "advanced_features",
           "styling_animations", "integration_validation">>

-----------------------------------------------------------------------------
(* Inputs: requests, model responses *)

Prompts == {
    "Build a blog",
    "Responsive admin page",
    "Online SHOPPING cart",
    "Create an e-commerce dashboard with login and a product carousel" }

\* every prompt without the optional fields, and one request that sets them
Dtos ==
    {[prompt |-> p, title |-> Undef, description |-> Undef, isPublic |-> Undef] : p \in Prompts}
    \cup {[prompt |-> "Build a blog", title |-> Str("Acme"), description |-> Str("Acme site"),
           isPublic |-> Bool(TRUE)]}

NoDto == [prompt |-> "", title |-> Undef, description |-> Undef, isPublic |-> Undef]

PageCode == "const t = { title: 'Home' };"
LayoutCode == "<div>{children}</div>"
CssCode == "@tailwind base;"
HeaderCode == "<header role='banner' className='md:flex'/>"
FooterCode == "<footer/>"
WidgetCode == "(props: Props) => <div/>"

BasicComponents == ("Header.tsx" :> Str(HeaderCode)) @@ ("Footer.tsx" :> Str(FooterCode))
ShopComponents ==
    BasicComponents @@ ("ProductCard.tsx" :> Str(WidgetCode)) @@ ("ShoppingCart.tsx" :> Str(WidgetCode))
SiteComponents ==
    ShopComponents @@ ("LoginForm.tsx" :> Str(WidgetCode)) @@ ("HeroCarousel.tsx" :> Str(WidgetCode))

NextjsContentOf(page, layout, css, components) ==
    Obj(("page.tsx" :> page) @@ ("layout.tsx" :> layout) @@ ("globals.css" :> css)
        @@ ("components" :> components))

NormalMetadata ==
    Obj(("category" :> Str("website")) @@ ("theme" :> Str("modern"))
        @@ ("framework" :> Str("Next.js")))

\* a response whose own metadata carries the fallback keys
OddMetadata ==
    Obj(("category" :> Str("website")) @@ ("isFallback" :> Bool(TRUE))
        @@ ("fallbackReason" :> Str("model says so")))

DefaultTailwindConfig ==
    "module.exports = { content: ['./src/**/*.{js,ts,jsx,tsx}'], theme: { extend: {} }, plugins: [] };"

ResponseOf(nextjsContent, metadata) ==
    Obj(("nextjsContent" :> nextjsContent) @@ ("packageJson" :> EmptyObj)
        @@ ("tailwindConfig" :> Str(DefaultTailwindConfig)) @@ ("metadata" :> metadata))

\* the objects JSON.parse may return for a single-shot response: complete
\* ones, ones that lack a part, and one without nextjsContent
ParsedResponses == {
    ResponseOf(NextjsContentOf(Str(PageCode), Str(LayoutCode), Str(CssCode), Obj(BasicComponents)),
               NormalMetadata),
    ResponseOf(NextjsContentOf(Str(PageCode), Str(LayoutCode), Str(CssCode), Obj(SiteComponents)),
               OddMetadata),
    ResponseOf(NextjsContentOf(Str(PageCode), Str(LayoutCode), Undef, Obj(SiteComponents)),
               Undef),
    ResponseOf(NextjsContentOf(Str(""), Str(LayoutCode), Str(CssCode), EmptyObj),
               NormalMetadata),
    ResponseOf(NextjsContentOf(Str(PageCode), Str(LayoutCode), Str(CssCode), Undef),
               NormalMetadata),
    ResponseOf(Undef, NormalMetadata) }

\* the object a step returns when the model answers in the shape its prompt asks for
WellFormedStep(name) ==
    CASE name = "project_structure" ->
            Obj("projectStructure" :> Obj(
                ("pages" :> Obj(("page.tsx" :> Str(PageCode)) @@ ("layout.tsx" :> Str(LayoutCode))))
                @@ ("components" :> Obj(
                      ("ui" :> Obj("Button.tsx" :> Str(WidgetCode)))
                      @@ ("layout" :> Obj(BasicComponents))
                      @@ ("features" :> Obj(("ProductCard.tsx" :> Str(WidgetCode))
                                            @@ ("ShoppingCart.tsx" :> Str(WidgetCode))
                                            @@ ("LoginForm.tsx" :> Str(WidgetCode))
                                            @@ ("HeroCarousel.tsx" :> Str(WidgetCode))))))
                @@ ("utilities" :> Obj("utils.ts" :> Str("export const noop = () => {};")))
                @@ ("hooks" :> Obj("useCart.ts" :> Str("export function useCart() {}")))
                @@ ("types" :> Obj("index.ts" :> Str("export interface Product {}")))))
      [] name = "main_components" ->
            Obj("mainComponents" :> Obj("HomePage" :> Str(PageCode)))
      [] name = "advanced_features" ->
            Obj("advancedFeatures" :> Obj("interactive" :> Obj("Carousel" :> Str(WidgetCode))))
      [] name = "styling_animations" ->
            Obj("styling" :> Obj(("tailwindConfig" :> Str(DefaultTailwindConfig))
                                 @@ ("globalStyles" :> Str(CssCode))))
      [] OTHER ->
            Obj("integration" :> Obj("packageJson" :> Obj("name" :> Str("site"))))

\* the objects JSON.parse may return for a step: the well-formed one, and for
\* the steps whose output carries the page and the styles also an empty object
StepResponses(name) ==
    IF name \in {"project_structure", "styling_animations"}
    THEN {WellFormedStep(name), EmptyObj}
    ELSE {WellFormedStep(name)}

\* how a model call can fail: the API call rejects (with or without a message),
\* the completion has no content, or the cleaned content is not JSON
ModelFailures == {
    [kind |-> "throw", message |-> "Connection error.", value |-> Undef],
    [kind |-> "throw", message |-> "", value |-> Undef],
    [kind |-> "empty", message |-> "", value |-> Undef],
    [kind |-> "unparseable", message |-> "Unexpected end of JSON input", value |-> Undef] }

ModelOutcomes(parsed) ==
    ModelFailures \cup {[kind |-> "json", message |-> "", value |-> v] : v \in parsed}

-----------------------------------------------------------------------------
(* AiService: pure helpers *)

\* determineCategory
DetermineCategory(features) ==
    IF SeqIncludes(features, "ecommerce") THEN "ecommerce"
    ELSE IF SeqIncludes(features, "dashboard") THEN "dashboard"
    ELSE IF SeqIncludes(features, "authentication") THEN "webapp"
    ELSE "website"

\* determineTheme
DetermineTheme(features) ==
    IF SeqIncludes(features, "dark") THEN "dark"
    ELSE IF SeqIncludes(features, "luxury") \/ SeqIncludes(features, "premium") THEN "luxury"
    ELSE "modern"

FeaturesArr(features) == Arr([i \in 1..Len(features) |-> Str(features[i])])

\* combineGenerationResults: `results` maps the names of the executed steps
\* to their parsed outputs
CombineGenerationResults(res, cx) ==
    LET ps == Get(Get(res, "projectStructure"), "projectStructure")
        adv == Get(Get(res, "advancedFeatures"), "advancedFeatures")
        styling == Get(Get(res, "styling"), "styling")
        integration == Get(Get(res, "integration"), "integration")
        comps == Get(ps, "components")
        components ==
            Merge(Merge(Spread(Get(comps, "ui")), Spread(Get(comps, "layout"))),
                  Spread(Get(comps, "features")))
        head ==
            ("page.tsx" :> OrElse(Get(Get(ps, "pages"), "page"), Str("")))
            @@ ("layout.tsx" :> OrElse(Get(Get(ps, "pages"), "layout"), Str("")))
            @@ ("globals.css" :> OrElse(Get(styling, "globalStyles"), Str("")))
            @@ ("components" :> Obj(components))
        tail ==
            ("utilities" :> Get(ps, "utilities")) @@ ("hooks" :> Get(ps, "hooks"))
            @@ ("types" :> Get(ps, "types"))
    IN Obj(
         ("nextjsContent" :> Obj(Merge(Merge(head, Spread(adv)), tail)))
         @@ ("packageJson" :>
               OrElse(Get(integration, "packageJson"),
                      Obj("dependencies" :> Obj(("next" :> Str("^14.0.0"))
                                                @@ ("react" :> Str("^18.0.0"))))))
         @@ ("tailwindConfig" :>
               OrElse(Get(styling, "tailwindConfig"), Str(DefaultTailwindConfig)))
         @@ ("metadata" :> Obj(
               ("category" :> Str(DetermineCategory(cx.features)))
               @@ ("theme" :> Str(DetermineTheme(cx.features)))
               @@ ("features" :> FeaturesArr(cx.features))
               @@ ("framework" :> Str("Next.js 14"))
               @@ ("styling" :> Str("Tailwind CSS + Custom CSS"))
               @@ ("complexity" :> Str(cx.level))
               @@ ("generationMethod" :> Str("multi-step"))
               @@ ("componentsCount" :> Num(Cardinality(Keys(OrElse(comps, EmptyObj)))))
               @@ ("advancedFeatures" :> Num(Cardinality(Keys(OrElse(adv, EmptyObj))))))))

\* the quote characters of the character class (a TLA+ string cannot hold a
\* backtick, so no string of the model holds one)
Quotes == {"'", "\""}

\* s.match(/<word>.*?['"`](.*?)['"`]/i): the first capture group, or "" for
\* no match (the strings of the model hold no line break)
MatchQuoted(s, word) ==
    LET low == ToLowerCase(s)
        n == Len(s)
        w == Len(word)
        quotes == {i \in 1..n : SubSeq(s, i, i) \in Quotes}
        after(i) == {q \in quotes : q >= i}
        min(S) == CHOOSE x \in S : \A y \in S : x <= y
        starts == {i \in 1..(n - w + 1) :
                     SubSeq(low, i, i + w - 1) = word /\ Cardinality(after(i + w)) >= 2}
    IN  IF starts = {} THEN [matched |-> FALSE, group |-> ""]
        ELSE LET q1 == min(after(min(starts) + w))
                 q2 == min(after(q1 + 1))
             IN [matched |-> TRUE, group |-> SubSeq(s, q1 + 1, q2 - 1)]

\* extractTitleFromNextjs
ExtractTitleFromNextjs(nextjsContent) ==
    LET pageContent == OrElse(Get(nextjsContent, "page.tsx"),
                              OrElse(Get(nextjsContent, "index.tsx"), Str("")))
        layoutContent == OrElse(Get(nextjsContent, "layout.tsx"),
                                OrElse(Get(nextjsContent, "_app.tsx"), Str("")))
        m == MatchQuoted(pageContent.v \o layoutContent.v, "title")
    IN IF m.matched THEN Str(m.group) ELSE Str("Generated Next.js Website")

\* extractDescriptionFromNextjs
ExtractDescriptionFromNextjs(nextjsContent) ==
    LET pageContent == OrElse(Get(nextjsContent, "page.tsx"),
                              OrElse(Get(nextjsContent, "index.tsx"), Str("")))
        m == MatchQuoted(pageContent.v, "description")
    IN IF m.matched THEN Str(m.group) ELSE Str("AI-generated Next.js application")

\* the metadata object saveGeneratedWebsite stores: the response's metadata
\* spread first, then the fixed keys (the clock value generationTime is not
\* modelled; tokensUsed is never assigned after its initialisation to 0)
SavedMetadata(parsedResponse, cx) ==
    Obj(Merge(Spread(Get(parsedResponse, "metadata")),
              ("packageJson" :> OrElse(Get(parsedResponse, "packageJson"), EmptyObj))
              @@ ("framework" :> Str("Next.js 14"))
              @@ ("styling" :> Str("Tailwind CSS + Custom CSS"))
              @@ ("complexity" :> Str(cx.level))
              @@ ("generationMethod" :>
                    Str(IF cx.level = "complex" THEN "multi-step" ELSE "single-step"))
              @@ ("tokensUsed" :> Num(0))))

\* the `data` saveGeneratedWebsite passes to prisma.website.create
SavedWebsiteData(d, parsedResponse, cx) ==
    LET nextjsContent == Get(parsedResponse, "nextjsContent")
    IN [title |-> OrElse(d.title, ExtractTitleFromNextjs(nextjsContent)),
        description |-> OrElse(d.description, ExtractDescriptionFromNextjs(nextjsContent)),
        prompt |-> d.prompt,
        htmlContent |-> Stringify(nextjsContent),
        cssContent |-> OrElse(Get(parsedResponse, "tailwindConfig"), Str("")).v,
        metadata |-> SavedMetadata(parsedResponse, cx),
        isPublic |-> OrElse(d.isPublic, Bool(FALSE)).v]

RECURSIVE Join(_, _)
\* arr.join(sep)
Join(arr, sep) ==
    IF arr = <<>> THEN ""
    ELSE IF Len(arr) = 1 THEN arr[1]
    ELSE arr[1] \o sep \o Join(Tail(arr), sep)

\* mutant of FallbackContent: the template has lost its styles and components
FallbackContentBare(d, cx) ==
    Obj(("page.tsx" :> Str("<h1>" \o OrElse(d.title, Str("Advanced Website")).v \o "</h1>"))
        @@ ("layout.tsx" :> Str("<title>" \o d.prompt \o "</title>")))

\* fallbackContent of generateAdvancedFallbackWebsite; the templates are
\* shortened to the parts that interpolate the request
FallbackContent(d, cx) ==
    LET title == OrElse(d.title, Str("Advanced Website")).v
    IN Obj(
        ("page.tsx" :> Str(
            "import React from 'react'; import { useState, useEffect } from 'react'; "
            \o "export default function Page() { const [isLoading, setIsLoading] = useState(true); <h1>"
            \o title \o "</h1><p>"
            \o OrElse(d.description, Str("A sophisticated, responsive website with advanced features.")).v
            \o "</p><div className='grid md:grid-cols-3 gap-8 mb-16'/> The original prompt was: "
            \o d.prompt \o " Complexity Level: " \o cx.level \o " | Features: "
            \o (IF Join(cx.features, ", ") # "" THEN Join(cx.features, ", ") ELSE "basic") \o " }"))
        @@ ("layout.tsx" :> Str(
            "import React from 'react'; export default function RootLayout({ children }) { <title>"
            \o title \o "</title><meta name='description' content='"
            \o OrElse(d.description, Str("Advanced website with modern features")).v \o "' /> }"))
        @@ ("globals.css" :> Str("@tailwind base; @tailwind components; @tailwind utilities;"))
        @@ ("components" :> Obj(
              ("Header.tsx" :> Str(
                  "import React from 'react'; export default function Header() { <header><h1>"
                  \o title \o "</h1><nav className='hidden md:flex space-x-6'/></header> }"))
              @@ ("Footer.tsx" :> Str(
                  "import React from 'react'; export default function Footer() { "
                  \o "<footer><div className='grid md:grid-cols-4 gap-8'/></footer> }")))))

\* lastError?.message || 'AI generation failed'
FallbackReason(err) ==
    IF "message" \in DOMAIN err /\ err.message # "" THEN err.message ELSE "AI generation failed"

\* fallbackMetadata
FallbackMetadata(err, cx) ==
    Obj(("category" :> Str(IF cx.level = "complex" THEN "advanced" ELSE "website"))
        @@ ("theme" :> Str("modern"))
        @@ ("features" :> Arr(<<Str("Responsive Design"), Str("Advanced Fallback"), Str("Modern UI")>>))
        @@ ("framework" :> Str("Next.js 14"))
        @@ ("styling" :> Str("Tailwind CSS + Custom CSS"))
        @@ ("generationAttempts" :> Num(3))
        @@ ("generationSuccess" :> Bool(FALSE))
        @@ ("fallbackReason" :> Str(FallbackReason(err)))
        @@ ("isFallback" :> Bool(TRUE))
        @@ ("complexity" :> Str(cx.level))
        @@ ("originalFeatures" :> FeaturesArr(cx.features)))

\* the `data` generateAdvancedFallbackWebsite passes to prisma.website.create
FallbackWebsiteData(d, err, cx) ==
    [title |-> OrElse(d.title, Str("Advanced Fallback Website")),
     description |-> OrElse(d.description,
                            Str("Advanced fallback website generated due to AI failure")),
     prompt |-> d.prompt,
     htmlContent |-> Stringify(FallbackContent(d, cx)),
     cssContent |-> DefaultTailwindConfig,
     metadata |-> FallbackMetadata(err, cx),
     isPublic |-> OrElse(d.isPublic, Bool(FALSE)).v]

\* mutant of BackoffDelay: the same delay before every retry
BackoffDelayFlat(n) == BaseDelay

\* attempt * 2000
BackoffDelay(n) == n * BaseDelay

\* mutant of LogGeneration: the error of the log write is not caught
LogGenerationRethrows(createOk) == IF createOk THEN "returned" ELSE "raised"

\* GenerationLogService.logGeneration: the try/catch around
\* prisma.generationLog.create; "returned" whether or not the create raised
LogGeneration(createOk) == "returned"

\* mutant of Accepted: the validation result is ignored
AcceptedAlways(v) == TRUE

\* line 77: if (validationResult.isValid)
Accepted(v) == v.isValid

\* mutant of ValidationExhausted: every failed validation raises
ValidationExhaustedAlways(n) == TRUE

\* line 83: if (attempt === maxAttempts), after a failed validation
ValidationExhausted(n) == n = MaxAttempts

\* mutant of StrategyFor: a moderate prompt is generated step by step
StrategyForModerateMultiStep(level) ==
    IF level = "simple" THEN "single-shot" ELSE "multi-step"

\* mutant of AttemptsExhausted: the fallback comes one attempt early
AttemptsExhaustedEarly(n) == n >= MaxAttempts - 1

\* mutant of AttemptsExhausted: off by one, the last attempt is retried
AttemptsExhaustedLate(n) == n > MaxAttempts

\* line 91: if (attempt === maxAttempts), in the catch block
AttemptsExhausted(n) == n = MaxAttempts

\* mutant of NextAttempt: an attempt number is skipped
NextAttemptSkip(n) == n + 2

\* line 61: attempt++
NextAttempt(n) == n + 1

\* lines 67-73: the strategy generateWebsite runs for a level
StrategyFor(level) ==
    IF level = "simple" THEN "single-shot"
    ELSE IF level = "moderate" THEN "single-shot"
    ELSE "multi-step"

-----------------------------------------------------------------------------
(* The validation results of the artifacts a request can produce, computed   *)
(* once: validateComplexWebsite is a pure function, and Validate reads its   *)
(* result for the artifact at hand from this table.                          *)

StepNames == {Steps[i] : i \in 1..Len(Steps)}

\* every value the local `results` can hold when all steps have returned
CompleteStepResults ==
    {Obj(f) : f \in {g \in [StepNames -> UNION {StepResponses(n) : n \in StepNames}] :
                        \A n \in StepNames : g[n] \in StepResponses(n)}}

Complexities == {AnalyzePromptComplexity(p) : p \in Prompts}

ProducibleArtifacts ==
    ParsedResponses
    \cup {CombineGenerationResults(r, cx) : r \in CompleteStepResults, cx \in Complexities}

ValidationTable ==
    [a \in ProducibleArtifacts, cx \in Complexities |-> ValidateComplexWebsite(a, cx)]

\* this.complexValidationService.validateComplexWebsite(result, complexity)
ValidationResultOf(content, cx) ==
    IF <<content, cx>> \in DOMAIN ValidationTable
    THEN ValidationTable[content, cx]
    ELSE ValidateComplexWebsite(content, cx)

-----------------------------------------------------------------------------
(* AiService.generateWebsite *)

NoWebsite == [none |-> TRUE]
NoOutcome == [kind |-> "none", website |-> NoWebsite, error |-> NoError]
Returned(w) == [kind |-> "result", website |-> w, error |-> NoError]
Rejected(e) == [kind |-> "error", website |-> NoWebsite, error |-> e]

\* one entry of the history
Ev(ev, n, info, art) == [ev |-> ev, n |-> n, info |-> info, art |-> art]

\* `validationResult` before line 76 has run in the iteration
NoValidationResult == [none |-> TRUE]

\* the locals of a call of generateWebsite that has not run yet
IdleLocals ==
    [pc |-> "idle", dto |-> NoDto, complexity |-> AnalyzePromptComplexity(""),
     attempt |-> 1, lastError |-> NoError, stepIdx |-> 1, results |-> EmptyObj,
     result |-> Undef, thrown |-> NoError, created |-> NoWebsite,
     outcome |-> NoOutcome, trace |-> <<>>, validationResult |-> NoValidationResult]

\* JavaScript null: what prisma returns for a missing record or an unset column
Null == [t |-> "null"]

\* the callers of WebsiteService
Callers == 1..2

\* what a WebsiteService call has given its caller
NoResponse == [kind |-> "none"]
Resolved(value) == [kind |-> "returned", value |-> value]
Threw(error) == [kind |-> "raised", error |-> error]

\* a caller with no WebsiteService call in flight; `sent` is the history of
\* the writes the call has sent to the table
IdleCall ==
    [op |-> "none", pc |-> "idle", id |-> 0, data |-> EmptyMap, query |-> EmptyMap,
     website |-> Null, sent |-> <<>>, response |-> NoResponse]

Init ==
    /\ table = [i \in {} |-> Null]
    /\ clock = [now |-> 1, nextId |-> 1]
    /\ calls = [c \in Callers |-> IdleCall]
    /\ response = <<>>
    /\ cleanedResponse = <<>>
    /\ pc = "idle"
    /\ dto = NoDto
    /\ complexity = AnalyzePromptComplexity("")
    /\ attempt = 1
    /\ lastError = NoError
    /\ stepIdx = 1
    /\ results = EmptyObj
    /\ result = Undef
    /\ thrown = NoError
    /\ created = NoWebsite
    /\ websites = <<>>
    /\ generationLogs = <<>>
    /\ outcome = NoOutcome
    /\ trace = <<>>
    /\ validationResult = NoValidationResult
    /\ peer = IdleLocals
    /\ running = 1

\* lines 48-58: the call, up to the loop
GenerateWebsite ==
    /\ pc = "idle"
    /\ \E d \in Dtos :
          /\ dto' = d
          /\ complexity' = AnalyzePromptComplexity(d.prompt)
    /\ attempt' = 1
    /\ lastError' = NoError
    /\ pc' = "loop"
    /\ UNCHANGED <<stepIdx, results, result, thrown, created, websites,
                   generationLogs, outcome, trace>>
    /\ UNCHANGED <<validationResult, peer, running, websiteVars, cleanerVars>>

\* lines 61-73 and 102: the loop test, the block-scoped `result` of the
\* iteration, and the choice of the strategy
StartAttempt ==
    /\ pc = "loop"
    /\ IF attempt <= MaxAttempts
       THEN /\ trace' = Append(trace, Ev("strategy", attempt, complexity.level, Undef))
            /\ IF StrategyFor(complexity.level) = "single-shot"
               THEN pc' = "simple_call" /\ UNCHANGED <<stepIdx, results>>
               ELSE pc' = "step_call" /\ stepIdx' = 1 /\ results' = EmptyObj
            /\ result' = Undef
            /\ validationResult' = NoValidationResult
            /\ UNCHANGED outcome
       ELSE /\ pc' = "done"
            /\ outcome' = Rejected(lastError)
            /\ UNCHANGED <<trace, stepIdx, results, result, validationResult>>
    /\ UNCHANGED <<dto, complexity, attempt, lastError, thrown, created,
                   websites, generationLogs>>
    /\ UNCHANGED <<peer, running, websiteVars, cleanerVars>>

\* mutant of ModelCallError: the error of a step does not name the step
ModelCallErrorAnonymous(o, where) ==
    CASE o.kind = "throw" -> Err(o.message)
      [] o.kind = "empty" -> Err("AI service did not return any content.")
      [] OTHER -> Err("Invalid response format: " \o o.message)

\* the error a failed model call raises; `where` is "" for the single-shot call
ModelCallError(o, where) ==
    CASE o.kind = "throw" -> Err(o.message)
      [] o.kind = "empty" ->
            IF where = "" THEN Err("AI service did not return any content.")
            ELSE Err("AI service did not return content for step: " \o where)
      [] OTHER ->
            IF where = "" THEN Err("Invalid response format: " \o o.message)
            ELSE Err("Invalid response format for step " \o where \o ": " \o o.message)

\* generateSimpleWebsite (generateModerateWebsite delegates to it): one model call
GenerateSimpleWebsite ==
    /\ pc = "simple_call"
    /\ \E o \in ModelOutcomes(ParsedResponses) :
          IF o.kind = "json"
          THEN /\ result' = o.value
               /\ pc' = "validate"
               /\ trace' = Append(trace, Ev("model", attempt, "single", Undef))
               /\ UNCHANGED thrown
          ELSE /\ thrown' = ModelCallError(o, "")
               /\ pc' = "catch"
               /\ trace' = trace \o <<Ev("model", attempt, "single", Undef),
                                      Ev("verdict", attempt, "strategy_raised", Undef)>>
               /\ UNCHANGED result
    /\ UNCHANGED <<dto, complexity, attempt, lastError, stepIdx, results, created,
                   websites, generationLogs, outcome>>
    /\ UNCHANGED <<validationResult, peer, running, websiteVars, cleanerVars>>

\* executeGenerationStep for steps[stepIdx], up to the delay of line 215
ExecuteGenerationStep ==
    /\ pc = "step_call"
    /\ \E o \in ModelOutcomes(StepResponses(Steps[stepIdx])) :
          IF o.kind = "json"
          THEN /\ results' = Obj(Merge(results.v, Steps[stepIdx] :> o.value))
               /\ pc' = "step_delay"
               /\ trace' = Append(trace, Ev("model", attempt, Steps[stepIdx], Undef))
               /\ UNCHANGED thrown
          ELSE /\ thrown' = ModelCallError(o, Steps[stepIdx])
               /\ pc' = "catch"
               /\ trace' = trace \o <<Ev("model", attempt, Steps[stepIdx], Undef),
                                      Ev("verdict", attempt, "strategy_raised", Undef)>>
               /\ results' = EmptyObj
    /\ UNCHANGED <<dto, complexity, attempt, lastError, stepIdx, result, created,
                   websites, generationLogs, outcome>>
    /\ UNCHANGED <<validationResult, peer, running, websiteVars, cleanerVars>>

\* the 500 ms delay after a step; after the last one, combineGenerationResults
\* and the return of generateComplexWebsite, which ends the life of `results`
StepDelay ==
    /\ pc = "step_delay"
    /\ trace' = Append(trace, Ev("step_delay", StepDelayMs, Steps[stepIdx], Undef))
    /\ IF stepIdx < Len(Steps)
       THEN stepIdx' = stepIdx + 1 /\ pc' = "step_call" /\ UNCHANGED <<result, results>>
       ELSE /\ result' = CombineGenerationResults(results, complexity)
            /\ pc' = "validate"
            /\ results' = EmptyObj
            /\ UNCHANGED stepIdx
    /\ UNCHANGED <<dto, complexity, attempt, lastError, thrown, created,
                   websites, generationLogs, outcome>>
    /\ UNCHANGED <<validationResult, peer, running, websiteVars, cleanerVars>>

\* lines 76-86: validation of the strategy's result and what follows it
Validate ==
    /\ pc = "validate"
    /\ \E v \in {ValidationResultOf(result, complexity)} :
         /\ validationResult' = (IF v.raised THEN NoValidationResult ELSE v)
         /\ IF v.raised
           THEN /\ thrown' = v.error
                /\ pc' = "catch"
                /\ trace' = Append(trace, Ev("verdict", attempt, "validation_raised", Undef))
                /\ UNCHANGED attempt
           ELSE IF Accepted(v)
           THEN /\ pc' = "save_create"
                /\ trace' = Append(trace, Ev("verdict", attempt, "valid", result))
                /\ UNCHANGED <<thrown, attempt>>
           ELSE IF ValidationExhausted(attempt)
           THEN /\ thrown' = Err("Content validation failed: " \o Join(v.errors, ", "))
                /\ pc' = "catch"
                /\ trace' = Append(trace, Ev("verdict", attempt, "invalid", Undef))
                /\ UNCHANGED attempt
           ELSE /\ attempt' = NextAttempt(attempt)
                /\ pc' = "loop"
                /\ trace' = Append(trace, Ev("verdict", attempt, "invalid", Undef))
                /\ UNCHANGED thrown
    /\ UNCHANGED <<dto, complexity, lastError, stepIdx, results, result, created,
                   websites, generationLogs, outcome>>
    /\ UNCHANGED <<peer, running, websiteVars, cleanerVars>>

\* saveGeneratedWebsite, lines 667-688: prisma.website.create returns or raises
SaveCreate ==
    /\ pc = "save_create"
    /\ \E ok \in BOOLEAN :
          IF ok
          THEN LET row == SavedWebsiteData(dto, result, complexity)
                          @@ [id |-> Len(websites) + 1]
               IN /\ websites' = Append(websites, row)
                  /\ created' = row
                  /\ pc' = "save_log"
                  /\ trace' = Append(trace, Ev("create", attempt, "model", result))
                  /\ UNCHANGED thrown
          ELSE /\ thrown' = Err("Can't reach database server")
               /\ pc' = "catch"
               /\ trace' = Append(trace, Ev("create_raised", attempt, "model", result))
               /\ UNCHANGED <<websites, created>>
    /\ UNCHANGED <<dto, complexity, attempt, lastError, stepIdx, results, result,
                   generationLogs, outcome>>
    /\ UNCHANGED <<validationResult, peer, running, websiteVars, cleanerVars>>

\* saveGeneratedWebsite, lines 690-711: logGeneration, then the return
SaveLog ==
    /\ pc = "save_log"
    /\ \E ok \in BOOLEAN :
          /\ generationLogs' =
                IF ok THEN Append(generationLogs,
                                  [prompt |-> dto.prompt, response |-> Stringify(result), tokens |-> 0])
                ELSE generationLogs
          /\ trace' = Append(trace, Ev(IF ok THEN "log" ELSE "log_raised", attempt, "model", Undef))
          /\ IF LogGeneration(ok) = "returned"
             THEN pc' = "done" /\ outcome' = Returned(created) /\ UNCHANGED thrown
             ELSE pc' = "catch" /\ thrown' = Err("log write failed") /\ UNCHANGED outcome
    /\ UNCHANGED <<dto, complexity, attempt, lastError, stepIdx, results, result,
                   created, websites>>
    /\ UNCHANGED <<validationResult, peer, running, websiteVars, cleanerVars>>

\* lines 87-99: the catch block
Catch ==
    /\ pc = "catch"
    /\ lastError' = thrown
    /\ IF AttemptsExhausted(attempt)
       THEN /\ pc' = "fallback_create"
            /\ trace' = Append(trace, Ev("fallback", attempt, FallbackReason(thrown), Undef))
       ELSE /\ pc' = "backoff"
            /\ UNCHANGED trace
    /\ thrown' = NoError
    /\ UNCHANGED <<dto, complexity, attempt, stepIdx, results, result,
                   created, websites, generationLogs, outcome>>
    /\ UNCHANGED <<validationResult, peer, running, websiteVars, cleanerVars>>

\* line 98: the backoff delay elapses and the loop goes on
Backoff ==
    /\ pc = "backoff"
    /\ trace' = Append(trace, Ev("backoff", BackoffDelay(attempt), "", Undef))
    /\ attempt' = NextAttempt(attempt)
    /\ pc' = "loop"
    /\ UNCHANGED <<dto, complexity, lastError, stepIdx, results, result, thrown,
                   created, websites, generationLogs, outcome>>
    /\ UNCHANGED <<validationResult, peer, running, websiteVars, cleanerVars>>

\* generateAdvancedFallbackWebsite, lines 713-928: prisma.website.create
\* returns or raises; an error raised here leaves generateWebsite
FallbackCreate ==
    /\ pc = "fallback_create"
    /\ \E ok \in BOOLEAN :
          IF ok
          THEN LET row == FallbackWebsiteData(dto, lastError, complexity)
                          @@ [id |-> Len(websites) + 1]
               IN /\ websites' = Append(websites, row)
                  /\ created' = row
                  /\ pc' = "fallback_log"
                  /\ trace' = Append(trace, Ev("create", attempt, "fallback", Undef))
                  /\ UNCHANGED outcome
          ELSE /\ pc' = "done"
               /\ outcome' = Rejected(Err("Can't reach database server"))
               /\ trace' = Append(trace, Ev("create_raised", attempt, "fallback", Undef))
               /\ UNCHANGED <<websites, created>>
    /\ UNCHANGED <<dto, complexity, attempt, lastError, stepIdx, results, result,
                   thrown, generationLogs>>
    /\ UNCHANGED <<validationResult, peer, running, websiteVars, cleanerVars>>

\* generateAdvancedFallbackWebsite, lines 930-951: logGeneration, then the return
FallbackLog ==
    /\ pc = "fallback_log"
    /\ \E ok \in BOOLEAN :
          /\ generationLogs' =
                IF ok THEN Append(generationLogs,
                                  [prompt |-> dto.prompt,
                                   response |-> Stringify(Obj(("fallback" :> Bool(TRUE))
                                       @@ ("error" :> IF "message" \in DOMAIN lastError
                                                      THEN Str(lastError.message) ELSE Undef))),
                                   tokens |-> 0])
                ELSE generationLogs
          /\ trace' = Append(trace, Ev(IF ok THEN "log" ELSE "log_raised", attempt, "fallback", Undef))
          /\ IF LogGeneration(ok) = "returned"
             THEN pc' = "done" /\ outcome' = Returned(created)
             ELSE pc' = "done" /\ outcome' = Rejected(Err("log write failed"))
    /\ UNCHANGED <<dto, complexity, attempt, lastError, stepIdx, results, result,
                   thrown, created, websites>>
    /\ UNCHANGED <<validationResult, peer, running, websiteVars, cleanerVars>>

Next ==
    \/ GenerateWebsite
    \/ StartAttempt
    \/ GenerateSimpleWebsite
    \/ ExecuteGenerationStep
    \/ StepDelay
    \/ Validate
    \/ SaveCreate
    \/ SaveLog
    \/ Catch
    \/ Backoff
    \/ FallbackCreate
    \/ FallbackLog

Spec == Init /\ [][Next]_vars

\* every await of the request resolves: a pending step is eventually taken
FairSpec == Spec /\ WF_vars(Next)

-----------------------------------------------------------------------------
(* analyzePromptComplexity on its own: the call of line 57 for a wide range  *)
(* of prompts                                                                *)

\* a spelling of each rule's first keyword with capitals
Capitalised == <<"E-Commerce", "Cart", "PRODUCT", "Carousel", "MoDaL", "Animation",
                 "DASHBOARD", "Multi-Page", "Gradient", "RESPONSIVE", "LogIn", "User">>

\* a spelling of each rule's second keyword, some inside a longer word
SecondSpelling == <<"SHOPPING", "checkout", "Catalogue", "sliders", "Popup", "HOVER",
                    "administrator", "Multiple Pages", "customer", "Mobile", "OAuth",
                    "profiles">>

RuleIds == 1..Len(ComplexityRules)

RECURSIVE PromptOf(_, _)
\* the prompt that names, in the order of ids, the rules of the set S in the
\* spelling sp[i]
PromptOf(S, sp) ==
    IF S = {} THEN "Please build a site"
    ELSE LET i == CHOOSE j \in S : \A k \in S : j >= k
         IN PromptOf(S \ {i}, sp) \o " " \o sp[i]

\* prompts without any keyword
PlainPrompts == {"", "Build a blog", "A PAGE FOR MY BAND", "car t, e commerce"}

\* prompts that hold both keywords of a rule, or a keyword twice
RepeatingPrompts ==
    {ComplexityRules[i].k1 \o " and " \o SecondSpelling[i] : i \in RuleIds}
    \cup {Capitalised[i] \o ComplexityRules[i].k1 : i \in RuleIds}

AnalyzerPrompts ==
    PlainPrompts \cup RepeatingPrompts \cup Prompts
    \cup {PromptOf(S, Capitalised) : S \in SUBSET RuleIds}
    \cup {PromptOf(S, SecondSpelling) : S \in {T \in SUBSET RuleIds : Cardinality(T) <= 2}}

\* lines 48-57 for any prompt: the request arrives and its prompt is analyzed
AnalyzeRequest ==
    /\ pc = "idle"
    /\ \E p \in AnalyzerPrompts :
          /\ dto' = [NoDto EXCEPT !.prompt = p]
          /\ complexity' = AnalyzePromptComplexity(p)
    /\ pc' = "analyzed"
    /\ UNCHANGED <<attempt, lastError, stepIdx, results, result, thrown, created,
                   websites, generationLogs, outcome, trace, validationResult,
                   peer, running, websiteVars, cleanerVars>>

AnalyzerNext == AnalyzeRequest

AnalyzerSpec == Init /\ [][AnalyzerNext]_vars

-----------------------------------------------------------------------------
(* validateComplexWebsite on its own: the call of line 76 for a wide range   *)
(* of artifacts and profiles                                                 *)

\* component maps: none, empty, with and without Header and Footer, with the
\* shop components one at a time and in capitals
ValidatorComponentMaps == {
    Undef, EmptyObj, Obj(BasicComponents), Obj(ShopComponents), Obj(SiteComponents),
    Obj("Nav.tsx" :> Str(WidgetCode)),
    Obj(BasicComponents @@ ("MiniCART.tsx" :> Str(WidgetCode))),
    Obj(BasicComponents @@ ("PRODUCTList.tsx" :> Str(WidgetCode))),
    Obj(ShopComponents @@ ("CheckoutForm.tsx" :> Str(WidgetCode))),
    Obj("Header.tsx" :> Str(HeaderCode)),
    Obj(("header.tsx" :> Str(HeaderCode)) @@ ("SiteFooter.tsx" :> Str(FooterCode))) }

\* the objects JSON.parse may return, part by part present, empty or absent
ValidatorArtifacts ==
    {ResponseOf(NextjsContentOf(page, layout, css, components), NormalMetadata) :
        page \in {Undef, Str(""), Str(PageCode)},
        layout \in {Undef, Str(LayoutCode)},
        css \in {Undef, Str(""), Str(CssCode)},
        components \in ValidatorComponentMaps}
    \cup {ResponseOf(Undef, NormalMetadata), ResponseOf(Str(""), NormalMetadata)}

\* the profiles of the prompts, and a complex one without ecommerce
ValidatorProfiles ==
    Complexities
    \cup {AnalyzePromptComplexity("Admin dashboard with login, user profile and a slider")}

\* line 76 for any artifact and profile: validateComplexWebsite returns its
\* result or raises
ValidateArtifact ==
    /\ pc = "idle"
    /\ \E a \in ValidatorArtifacts, cx \in ValidatorProfiles :
          /\ result' = a
          /\ complexity' = cx
          /\ \E v \in {ValidateComplexWebsite(a, cx)} :
                IF v.raised
                THEN /\ pc' = "validator_raised"
                     /\ thrown' = v.error
                     /\ UNCHANGED validationResult
                ELSE /\ pc' = "validated"
                     /\ validationResult' = v
                     /\ UNCHANGED thrown
    /\ UNCHANGED <<dto, attempt, lastError, stepIdx, results, created, websites,
                   generationLogs, outcome, trace, peer, running, websiteVars, cleanerVars>>

ValidatorNext == ValidateArtifact

ValidatorSpec == Init /\ [][ValidatorNext]_vars

-----------------------------------------------------------------------------
(* generateAdvancedFallbackWebsite on its own: the call of line 94 for a     *)
(* wide range of requests and last errors                                    *)

\* requests with each optional field absent, empty or set
FallbackDtos ==
    {[prompt |-> p, title |-> t, description |-> d, isPublic |-> Undef] :
        p \in Prompts \cup {"It's a \"test\" ${dto.title}"},
        t \in {Undef, Str(""), Str("Acme")},
        d \in {Undef, Str(""), Str("Acme site")}}

\* last errors: raised by a model call, by the validation, by the create, and none
FallbackErrors ==
    {Err(f.message) : f \in {g \in ModelFailures : g.kind = "throw"}}
    \cup {Err("Content validation failed: Missing globals.css"),
          Err("Can't reach database server"), NoError}

\* lines 91-94 for any request and last error: the third attempt has failed
\* and generateAdvancedFallbackWebsite is called
EnterFallback ==
    /\ pc = "idle"
    /\ \E d \in FallbackDtos, e \in FallbackErrors :
          /\ dto' = d
          /\ complexity' = AnalyzePromptComplexity(d.prompt)
          /\ lastError' = e
    /\ attempt' = MaxAttempts
    /\ pc' = "fallback_create"
    /\ UNCHANGED <<stepIdx, results, result, thrown, created, websites,
                   generationLogs, outcome, trace, validationResult, peer, running, websiteVars, cleanerVars>>

-----------------------------------------------------------------------------
(* cleanAIResponse on its own.  A text is the sequence of its characters;    *)
(* the backtick, the line feed and the space are written BT, NL and SP.      *)

BT == "BT"
NL == "NL"
SP == "SP"

\* the text of a string of ordinary characters
RECURSIVE TextOf(_)
TextOf(str) == IF str = "" THEN <<>> ELSE <<SubSeq(str, 1, 1)>> \o TextOf(SubSeq(str, 2, Len(str)))

\* the patterns of lines 574 and 575, without the optional line feed
FenceJson == <<BT, BT, BT>> \o TextOf("json")
Fence == <<BT, BT, BT>>

\* the pattern occurs in the text at position i
MatchesAt(text, i, pattern) ==
    /\ i + Len(pattern) - 1 <= Len(text)
    /\ SubSeq(text, i, i + Len(pattern) - 1) = pattern

\* text.replace(/<pattern>\n?/g, '') from position i on: the matches are
\* found left to right and do not overlap
RECURSIVE RemoveAllFrom(_, _, _)
RemoveAllFrom(text, i, pattern) ==
    IF i > Len(text) THEN <<>>
    ELSE IF MatchesAt(text, i, pattern)
    THEN RemoveAllFrom(text,
                       IF i + Len(pattern) <= Len(text) /\ text[i + Len(pattern)] = NL
                       THEN i + Len(pattern) + 1 ELSE i + Len(pattern),
                       pattern)
    ELSE <<text[i]>> \o RemoveAllFrom(text, i + 1, pattern)

\* text.replace(/^[^{]*/, '')
DropBeforeFirstOpen(text) ==
    IF \E i \in DOMAIN text : text[i] = "{"
    THEN SubSeq(text, CHOOSE i \in DOMAIN text :
                         text[i] = "{" /\ \A j \in 1..(i - 1) : text[j] # "{",
                Len(text))
    ELSE <<>>

\* text.replace(/[^}]*$/, '')
DropAfterLastClose(text) ==
    IF \E i \in DOMAIN text : text[i] = "}"
    THEN SubSeq(text, 1, CHOOSE i \in DOMAIN text :
                            text[i] = "}" /\ \A j \in (i + 1)..Len(text) : text[j] # "}")
    ELSE <<>>

WhiteSpace == {NL, SP}

\* text.trim()
Trim(text) ==
    IF \A i \in DOMAIN text : text[i] \in WhiteSpace THEN <<>>
    ELSE SubSeq(text,
                CHOOSE i \in DOMAIN text :
                   text[i] \notin WhiteSpace /\ \A j \in 1..(i - 1) : text[j] \in WhiteSpace,
                CHOOSE i \in DOMAIN text :
                   text[i] \notin WhiteSpace /\ \A j \in (i + 1)..Len(text) : text[j] \in WhiteSpace)

\* cleanAIResponse, lines 572-579
CleanAIResponse(text) ==
    Trim(DropAfterLastClose(DropBeforeFirstOpen(
        RemoveAllFrom(RemoveAllFrom(text, 1, FenceJson), 1, Fence))))

\* what the model may put before the JSON text: nothing, a sentence, a brace-free note
Preambles == {<<>>, TextOf("Sure:") \o <<NL>>, <<SP>> \o TextOf("a}") \o <<SP>>}

\* opening code fences
OpeningFences == {<<>>, FenceJson \o <<NL>>, Fence \o <<NL>>, FenceJson}

\* JSON object texts: flat, nested, with white space inside, and with code
\* fences inside a string value
JsonTexts ==
    {TextOf("{x}"),
     TextOf("{a{}b}"),
     <<"{", NL, SP>> \o TextOf("x") \o <<SP, "}">>,
     TextOf("{m") \o Fence \o TextOf("}"),
     TextOf("{m") \o FenceJson \o <<NL>> \o TextOf("{}") \o Fence \o TextOf("}")}

\* closing code fences
ClosingFences == {<<>>, <<NL>> \o Fence, Fence \o <<NL>>}

\* what the model may put after the JSON text
Postambles == {<<>>, <<NL>>, <<SP>> \o TextOf("ok{") \o <<SP>>}

\* the completions of the model: the five parts in order, and texts of no such form
Completions ==
    {a \o b \o c \o d \o e : a \in Preambles, b \in OpeningFences, c \in JsonTexts,
                                 d \in ClosingFences, e \in Postambles}
    \cup {TextOf("no json"), TextOf("}{"), <<BT, BT>> \o FenceJson \o <<BT>> \o TextOf("json{}"),
          TextOf("{"), <<SP, NL>>}

\* lines 509 and 618 for any completion
CleanResponse ==
    /\ pc = "idle"
    /\ \E text \in Completions :
          /\ response' = text
          /\ cleanedResponse' = CleanAIResponse(text)
    /\ pc' = "cleaned"
    /\ UNCHANGED <<dto, complexity, attempt, lastError, stepIdx, results, result, thrown,
                   created, websites, generationLogs, outcome, trace, validationResult,
                   peer, running, websiteVars>>

\* cleanAIResponse applied to its own result
CleanAgain ==
    /\ pc = "cleaned"
    /\ response' = cleanedResponse
    /\ cleanedResponse' = CleanAIResponse(cleanedResponse)
    /\ pc' = "cleaned_again"
    /\ UNCHANGED <<dto, complexity, attempt, lastError, stepIdx, results, result, thrown,
                   created, websites, generationLogs, outcome, trace, validationResult,
                   peer, running, websiteVars>>

CleanerNext ==
    \/ CleanResponse
    \/ CleanAgain

CleanerSpec == Init /\ [][CleanerNext]_vars

-----------------------------------------------------------------------------
(* combineGenerationResults on its own: the call of line 223 for the values  *)
(* `results` holds after the five steps, and for objects that carry the keys *)
(* the function reads                                                        *)

\* a fragment map of one source; each value names its source
SourceMaps(source) ==
    {Undef, EmptyObj,
     Obj("Button.tsx" :> Str(source)),
     Obj("Header.tsx" :> Str(source)),
     Obj(("Button.tsx" :> Str(source)) @@ ("Header.tsx" :> Str(source)))}

\* objects with the keys combineGenerationResults reads
KeyedResults ==
    {Obj("projectStructure" :> Obj("projectStructure" :> Obj("components" :>
        Obj(("ui" :> u) @@ ("layout" :> l) @@ ("features" :> f))))) :
        u \in SourceMaps("ui"), l \in SourceMaps("layout"), f \in SourceMaps("features")}

CombinerResults == KeyedResults \cup CompleteStepResults

\* line 223 for any such object
CombineResults ==
    /\ pc = "idle"
    /\ \E r \in CombinerResults, cx \in Complexities :
          /\ results' = r
          /\ complexity' = cx
          /\ result' = CombineGenerationResults(r, cx)
    /\ pc' = "combined"
    /\ UNCHANGED <<dto, attempt, lastError, stepIdx, thrown, created, websites,
                   generationLogs, outcome, trace, validationResult, peer, running,
                   websiteVars, cleanerVars>>

CombinerNext == CombineResults

CombinerSpec == Init /\ [][CombinerNext]_vars

FallbackNext ==
    \/ EnterFallback
    \/ FallbackCreate
    \/ FallbackLog

FallbackSpec == Init /\ [][FallbackNext]_vars

-----------------------------------------------------------------------------
(* Two calls of generateWebsite on the same AiService instance.  The          *)
(* variables of the pipeline are those of the running call; the other call   *)
(* is suspended at an await (or has not started, or has returned) and its    *)
(* locals are kept in `peer`.  Switch is the event loop resuming the other   *)
(* call; the tables of websites and generation logs are shared.              *)

\* the locals of the running call
Locals ==
    [pc |-> pc, dto |-> dto, complexity |-> complexity, attempt |-> attempt,
     lastError |-> lastError, stepIdx |-> stepIdx, results |-> results,
     result |-> result, thrown |-> thrown, created |-> created,
     outcome |-> outcome, trace |-> trace, validationResult |-> validationResult]

\* mutant of CallLocal: the variable is a field of the service instance, so
\* the resumed call finds the value the other call left
InstanceField(own, left) == left

\* a variable declared with let or const inside generateWebsite: the resumed
\* call finds its own value
CallLocal(own, left) == own

\* positions at which a call is inside synchronous code
Synchronous == {"loop", "validate", "catch"}

Switch ==
    /\ pc \notin Synchronous
    /\ ~(pc = "done" /\ peer.pc = "done")
    /\ peer' = Locals
    /\ running' = 3 - running
    /\ pc' = peer.pc
    /\ dto' = peer.dto
    /\ outcome' = peer.outcome
    /\ trace' = peer.trace
    /\ complexity' = CallLocal(peer.complexity, complexity)
    /\ attempt' = CallLocal(peer.attempt, attempt)
    /\ lastError' = CallLocal(peer.lastError, lastError)
    /\ stepIdx' = CallLocal(peer.stepIdx, stepIdx)
    /\ results' = CallLocal(peer.results, results)
    /\ result' = CallLocal(peer.result, result)
    /\ thrown' = CallLocal(peer.thrown, thrown)
    /\ created' = CallLocal(peer.created, created)
    /\ validationResult' = CallLocal(peer.validationResult, validationResult)
    /\ UNCHANGED <<websites, generationLogs, websiteVars, cleanerVars>>

\* the requests of the two calls: a complex one and a simple one
ConcDtos ==
    <<[NoDto EXCEPT !.prompt = "Create an e-commerce dashboard with login and a product carousel"],
      [NoDto EXCEPT !.prompt = "Build a blog"]>>

\* line 57 for each of the two requests
ConcComplexities == [i \in DOMAIN ConcDtos |-> AnalyzePromptComplexity(ConcDtos[i].prompt)]

\* the single-shot responses the model gives here: a valid and an invalid one
ConcResponses ==
    {ResponseOf(NextjsContentOf(Str(PageCode), Str(LayoutCode), Str(CssCode), Obj(BasicComponents)),
                NormalMetadata),
     ResponseOf(NextjsContentOf(Str(PageCode), Str(LayoutCode), Undef, Obj(SiteComponents)),
                Undef)}

\* the errors of the model failures left out here
ConcExcludedErrors ==
    {ModelCallError(f, w) : f \in {g \in ModelFailures : g.message # "Connection error."},
                            w \in {""} \cup StepNames}

\* the steps at which the model fails here
ConcFailingSteps == {"project_structure", "single"}

\* the environment of the two calls: which requests arrive and what the
\* model and the database answer
ConcBounds ==
    /\ dto \in {NoDto, ConcDtos[running]}
    /\ thrown \notin ConcExcludedErrors
    /\ result \in ParsedResponses => result \in ConcResponses
    /\ \A k \in DOMAIN results.v : results.v[k] = WellFormedStep(k)
    /\ \A i \in DOMAIN trace :
          (trace[i].ev = "verdict" /\ trace[i].info = "strategy_raised")
             => trace[i - 1].info \in ConcFailingSteps

ConcNext ==
    \/ GenerateWebsite /\ ConcBounds'
    \/ StartAttempt /\ ConcBounds'
    \/ GenerateSimpleWebsite /\ ConcBounds'
    \/ ExecuteGenerationStep /\ ConcBounds'
    \/ StepDelay /\ ConcBounds'
    \/ Validate /\ ConcBounds'
    \/ SaveCreate /\ ConcBounds'
    \/ SaveLog /\ ConcBounds'
    \/ Catch /\ ConcBounds'
    \/ Backoff /\ ConcBounds'
    \/ FallbackCreate /\ ConcBounds'
    \/ FallbackLog /\ ConcBounds'
    \/ Switch

ConcSpec == Init /\ [][ConcNext]_vars

-----------------------------------------------------------------------------
(* WebsiteService: create, findAll, findOne, update, remove over the website *)
(* table.  A row keeps the columns the service filters and sorts on; the     *)
(* content columns (prompt, htmlContent, cssContent) and updatedAt pass      *)
(* through the service untouched and are left out.                           *)

MaxWebsites == 3
WebsiteIds == 1..MaxWebsites
MaxNow == 2

\* the CreateWebsiteDto values of the callers
CreateWebsiteDtos ==
    {("title" :> Str("Shop"))
        @@ ("metadata" :> Obj(("category" :> Str("shop")) @@ ("theme" :> Str("dark")))),
     ("title" :> Str("Blog")) @@ ("description" :> Str("my SHOP notes"))
        @@ ("isPublic" :> Bool(TRUE))
        @@ ("metadata" :> Obj(("category" :> Str("blog")) @@ ("theme" :> Str("dark")))),
     ("title" :> Str("Shop two")) @@ ("isPublic" :> Bool(TRUE))
        @@ ("metadata" :> Obj(("category" :> Str("shop")) @@ ("theme" :> Str("light"))))}

\* the UpdateWebsiteDto values of the callers: any subset of the fields
UpdateWebsiteDtos ==
    {("title" :> Str("Renamed")),
     ("isPublic" :> Bool(TRUE)) @@ ("description" :> Str("shop of the year"))}

\* the columns of a new row the data does not give
ColumnDefaults ==
    ("description" :> Null) @@ ("isPublic" :> Bool(FALSE)) @@ ("metadata" :> Null)

\* prisma.website.create: the row the table gets
CreatedRow(data, id, now) ==
    Merge(Merge(ColumnDefaults, data), ("id" :> id) @@ ("createdAt" :> now))

\* mutant of UpdatedRow: the row is rebuilt from the data, so the fields the
\* data does not give fall back to their defaults
UpdatedRowRebuilt(row, data) ==
    Merge(Merge(ColumnDefaults, data),
          ("title" :> row["title"]) @@ ("id" :> row["id"]) @@ ("createdAt" :> row["createdAt"]))

\* prisma.website.update on an existing row: the given fields replace the old ones
UpdatedRow(row, data) == Merge(row, data)

\* prisma.website.findUnique({ where: { id } })
FindUnique(id) == IF id \in DOMAIN table THEN table[id] ELSE Null

\* the errors of the service
NotFoundException(id) == [name |-> "NotFoundException", id |-> id]
RecordNotFound(id) == [name |-> "PrismaClientKnownRequestError", code |-> "P2025", id |-> id]

\* mapToResponseDto, lines 356-369: a field-by-field copy
MapToResponseDto(website) == website

\* the WebsiteQueryDto values of the callers; page and limit are absent or
\* within the bounds the DTO validates (page >= 1, 1 <= limit <= 100)
QueryPages == {Undef, Num(1), Num(2), Num(3)}
QueryLimits == {Undef, Num(1), Num(2), Num(100)}
QueryFilters ==
    {[search |-> Undef, isPublic |-> Undef, category |-> Undef, theme |-> Undef],
     [search |-> Str(""), isPublic |-> Bool(FALSE), category |-> Str(""), theme |-> Str("")],
     [search |-> Str("sHoP"), isPublic |-> Undef, category |-> Undef, theme |-> Undef],
     [search |-> Undef, isPublic |-> Bool(TRUE), category |-> Undef, theme |-> Undef],
     [search |-> Undef, isPublic |-> Undef, category |-> Str("shop"), theme |-> Undef],
     [search |-> Undef, isPublic |-> Undef, category |-> Undef, theme |-> Str("dark")],
     [search |-> Undef, isPublic |-> Undef, category |-> Str("shop"), theme |-> Str("dark")],
     [search |-> Str("shop"), isPublic |-> Bool(TRUE), category |-> Str("shop"), theme |-> Str("light")]}
QueryOf(p, l, f) ==
    [page |-> p, limit |-> l, search |-> f.search, isPublic |-> f.isPublic,
     category |-> f.category, theme |-> f.theme]
WebsiteQueries ==
    {QueryOf(p, l, [search |-> Undef, isPublic |-> Undef, category |-> Undef, theme |-> Undef]) :
        p \in QueryPages, l \in QueryLimits}
    \cup {QueryOf(p, Num(1), f) : p \in {Undef, Num(2)}, f \in QueryFilters}

\* line 238: the destructuring defaults
PageOf(query) == IF query.page = Undef THEN 1 ELSE query.page.v
LimitOf(query) == IF query.limit = Undef THEN 10 ELSE query.limit.v

\* line 239
SkipOf(query) == (PageOf(query) - 1) * LimitOf(query)

\* lines 244-249
WithSearch(where, query) ==
    IF Truthy(query.search) THEN Merge(where, "OR" :> query.search.v) ELSE where

\* lines 251-253
WithIsPublic(where, query) ==
    IF query.isPublic # Undef THEN Merge(where, "isPublic" :> query.isPublic) ELSE where

\* lines 255-260
WithCategory(where, query) ==
    IF Truthy(query.category)
    THEN Merge(where, "metadata" :> [path |-> "category", equals |-> query.category.v])
    ELSE where

\* lines 262-267
WithTheme(where, query) ==
    IF Truthy(query.theme)
    THEN Merge(where, "metadata" :> [path |-> "theme", equals |-> query.theme.v])
    ELSE where

\* lines 242-267: the where clause, built by assignments in this order
BuildWhere(query) ==
    WithTheme(WithCategory(WithIsPublic(WithSearch(EmptyMap, query), query), query), query)

\* { contains: search, mode: 'insensitive' } on a text column
ContainsInsensitive(column, search) ==
    column.t = "string" /\ Includes(ToLowerCase(column.v), ToLowerCase(search))

\* whether a row satisfies a where clause
Matches(where, row) ==
    /\ "OR" \in DOMAIN where =>
          \/ ContainsInsensitive(row["title"], where["OR"])
          \/ ContainsInsensitive(row["description"], where["OR"])
    /\ "isPublic" \in DOMAIN where => row["isPublic"] = where["isPublic"]
    /\ "metadata" \in DOMAIN where =>
          Get(row["metadata"], where["metadata"].path) = Str(where["metadata"].equals)

MatchingIds(where) == {i \in DOMAIN table : Matches(where, table[i])}

\* orderBy: { createdAt: 'desc' }: the orders the database may return rows in
\* (rows created at the same instant come in either order)
NewestFirst(ids) ==
    {s \in [1..Cardinality(ids) -> ids] :
        /\ \A i, j \in DOMAIN s : i # j => s[i] # s[j]
        /\ \A i, j \in DOMAIN s : i < j => table[s[i]]["createdAt"] >= table[s[j]]["createdAt"]}

\* skip and take applied to an ordered list of ids
SkipTake(s, skip, take) ==
    [k \in 1..(IF Len(s) - skip < take THEN (IF Len(s) < skip THEN 0 ELSE Len(s) - skip) ELSE take)
        |-> table[s[skip + k]]]

\* prisma.website.findMany({ where, skip, take, orderBy }): its possible answers
FindMany(where, skip, take) ==
    {SkipTake(s, skip, take) : s \in NewestFirst(MatchingIds(where))}

\* prisma.website.count({ where })
Count(where) == Cardinality(MatchingIds(where))

\* mutant of CeilOfQuotient: the quotient is rounded down
FloorOfQuotient(total, limit) == total \div limit

\* Math.ceil(total / limit) for a positive limit
CeilOfQuotient(total, limit) ==
    IF total % limit = 0 THEN total \div limit ELSE (total \div limit) + 1

\* lines 279-293
PaginatedResponse(rows, total, page, limit) ==
    [data |-> [k \in DOMAIN rows |-> MapToResponseDto(rows[k])],
     meta |-> [page |-> page, limit |-> limit, total |-> total,
               totalPages |-> CeilOfQuotient(total, limit),
               hasNext |-> page < CeilOfQuotient(total, limit),
               hasPrev |-> page > 1]]

\* WebsiteService.create, lines 227-235
Create(c) ==
    /\ calls[c].pc = "idle"
    /\ clock.nextId <= MaxWebsites
    /\ \E data \in CreateWebsiteDtos, now \in {clock.now, clock.now + 1} :
          /\ now <= MaxNow
          /\ \E row \in {CreatedRow(data, clock.nextId, now)} :
                /\ table' = [i \in DOMAIN table \cup {clock.nextId} |->
                                IF i = clock.nextId THEN row ELSE table[i]]
                /\ calls' = [calls EXCEPT ![c] =
                                [IdleCall EXCEPT !.op = "create", !.pc = "done", !.data = data,
                                                 !.id = clock.nextId,
                                                 !.sent = <<[op |-> "create", id |-> clock.nextId,
                                                             data |-> data, hit |-> TRUE]>>,
                                                 !.response = Resolved(MapToResponseDto(row))]]
          /\ clock' = [now |-> now, nextId |-> clock.nextId + 1]
    /\ UNCHANGED pipelineVars

\* WebsiteService.findAll, lines 237-294; findMany and count of the
\* Promise.all read the table in the same state
FindAll(c) ==
    /\ calls[c].pc = "idle"
    /\ \E query \in WebsiteQueries :
          \E where \in {BuildWhere(query)} :
             \E found \in FindMany(where, SkipOf(query), LimitOf(query)) :
                calls' = [calls EXCEPT ![c] =
                            [IdleCall EXCEPT !.op = "findAll", !.pc = "done", !.query = query,
                                             !.response = Resolved(PaginatedResponse(
                                                 found, Count(where), PageOf(query), LimitOf(query)))]]
    /\ UNCHANGED <<table, clock>>
    /\ UNCHANGED pipelineVars

\* WebsiteService.findOne, lines 296-306
FindOne(c) ==
    /\ calls[c].pc = "idle"
    /\ \E id \in WebsiteIds :
          \E website \in {FindUnique(id)} :
             calls' = [calls EXCEPT ![c] =
                         [IdleCall EXCEPT !.op = "findOne", !.pc = "done", !.id = id,
                                          !.website = website,
                                          !.response = IF website = Null
                                                       THEN Threw(NotFoundException(id))
                                                       ELSE Resolved(MapToResponseDto(website))]]
    /\ UNCHANGED <<table, clock>>
    /\ UNCHANGED pipelineVars

\* WebsiteService.update, lines 308-317: findUnique and the check of its result
UpdateFindUnique(c) ==
    /\ calls[c].pc = "idle"
    /\ \E id \in WebsiteIds, data \in UpdateWebsiteDtos :
          \E website \in {FindUnique(id)} :
             calls' = [calls EXCEPT ![c] =
                         IF website = Null
                         THEN [IdleCall EXCEPT !.op = "update", !.pc = "done", !.id = id,
                                               !.data = data,
                                               !.response = Threw(NotFoundException(id))]
                         ELSE [IdleCall EXCEPT !.op = "update", !.pc = "update", !.id = id,
                                               !.data = data, !.website = website]]
    /\ UNCHANGED <<table, clock>>
    /\ UNCHANGED pipelineVars

\* WebsiteService.update, lines 319-324: prisma.website.update, which raises
\* when the row is not there, and the return
UpdateWrite(c) ==
    /\ calls[c].pc = "update"
    /\ IF calls[c].id \in DOMAIN table
       THEN \E row \in {UpdatedRow(table[calls[c].id], calls[c].data)} :
               /\ table' = [table EXCEPT ![calls[c].id] = row]
               /\ calls' = [calls EXCEPT ![c].pc = "done",
                                         ![c].sent = <<[op |-> "update", id |-> calls[c].id,
                                                        data |-> calls[c].data, hit |-> TRUE]>>,
                                         ![c].response = Resolved(MapToResponseDto(row))]
       ELSE /\ calls' = [calls EXCEPT ![c].pc = "done",
                                      ![c].sent = <<[op |-> "update", id |-> calls[c].id,
                                                     data |-> calls[c].data, hit |-> FALSE]>>,
                                      ![c].response = Threw(RecordNotFound(calls[c].id))]
            /\ UNCHANGED table
    /\ UNCHANGED clock
    /\ UNCHANGED pipelineVars

\* WebsiteService.remove, lines 327-336: findUnique and the check of its result
RemoveFindUnique(c) ==
    /\ calls[c].pc = "idle"
    /\ \E id \in WebsiteIds :
          \E website \in {FindUnique(id)} :
             calls' = [calls EXCEPT ![c] =
                         IF website = Null
                         THEN [IdleCall EXCEPT !.op = "remove", !.pc = "done", !.id = id,
                                               !.response = Threw(NotFoundException(id))]
                         ELSE [IdleCall EXCEPT !.op = "remove", !.pc = "delete", !.id = id,
                                               !.website = website]]
    /\ UNCHANGED <<table, clock>>
    /\ UNCHANGED pipelineVars

\* WebsiteService.remove, lines 338-341: prisma.website.delete, which raises
\* when the row is not there, and the return
RemoveDelete(c) ==
    /\ calls[c].pc = "delete"
    /\ IF calls[c].id \in DOMAIN table
       THEN /\ table' = [i \in DOMAIN table \ {calls[c].id} |-> table[i]]
            /\ calls' = [calls EXCEPT ![c].pc = "done",
                                      ![c].sent = <<[op |-> "delete", id |-> calls[c].id,
                                                     data |-> EmptyMap, hit |-> TRUE]>>,
                                      ![c].response = Resolved(Undef)]
       ELSE /\ calls' = [calls EXCEPT ![c].pc = "done",
                                      ![c].sent = <<[op |-> "delete", id |-> calls[c].id,
                                                     data |-> EmptyMap, hit |-> FALSE]>>,
                                      ![c].response = Threw(RecordNotFound(calls[c].id))]
            /\ UNCHANGED table
    /\ UNCHANGED clock
    /\ UNCHANGED pipelineVars

\* the caller has its answer and may call again
NextRequest(c) ==
    /\ calls[c].pc = "done"
    /\ calls' = [calls EXCEPT ![c] = IdleCall]
    /\ UNCHANGED <<table, clock>>
    /\ UNCHANGED pipelineVars

\* one caller, one call at a time
Sequential == {1}

WebsiteNext ==
    \/ \E c \in Sequential : Create(c)
    \/ \E c \in Sequential : FindAll(c)
    \/ \E c \in Sequential : FindOne(c)
    \/ \E c \in Sequential : UpdateFindUnique(c)
    \/ \E c \in Sequential : UpdateWrite(c)
    \/ \E c \in Sequential : RemoveFindUnique(c)
    \/ \E c \in Sequential : RemoveDelete(c)
    \/ \E c \in Sequential : NextRequest(c)

WebsiteSpec == Init /\ [][WebsiteNext]_vars

\* the requests of the two callers: at most two websites, created at the
\* same instant from the same data
MaxConcWebsites == 2
WebsiteConcBounds ==
    /\ clock.nextId <= MaxConcWebsites + 1
    /\ clock.now = 1
    /\ \A c \in Callers :
          /\ calls[c].id <= MaxConcWebsites
          /\ calls[c].op = "create" => calls[c].data["title"] = Str("Shop")

\* two callers whose calls interleave at every await of the service
WebsiteConcNext ==
    \/ \E c \in Callers : Create(c) /\ WebsiteConcBounds'
    \/ \E c \in Callers : FindOne(c) /\ WebsiteConcBounds'
    \/ \E c \in Callers : UpdateFindUnique(c) /\ WebsiteConcBounds'
    \/ \E c \in Callers : UpdateWrite(c)
    \/ \E c \in Callers : RemoveFindUnique(c) /\ WebsiteConcBounds'
    \/ \E c \in Callers : RemoveDelete(c)
    \/ \E c \in Callers : NextRequest(c)

WebsiteConcSpec == Init /\ [][WebsiteConcNext]_vars

-----------------------------------------------------------------------------
(* Reading the history *)

EventsOf(ev) == {i \in DOMAIN trace : trace[i].ev = ev}
StrategyCalls == Cardinality(EventsOf("strategy"))
ModelCalls == Cardinality(EventsOf("model"))
FallbackCalls == Cardinality(EventsOf("fallback"))
Verdicts == SelectSeq(trace, LAMBDA e : e.ev = "verdict")
Creates == SelectSeq(trace, LAMBDA e : e.ev = "create")

\* the event records that an attempt ended by raising into the catch block
\* without a validation verdict of `invalid`
IsRaise(e) ==
    \/ e.ev = "verdict" /\ e.info \in {"strategy_raised", "validation_raised"}
    \/ e.ev = "create_raised" /\ e.info = "model"

\* the website row a create event stands for
RowOfCreate(e, id) ==
    (IF e.info = "fallback"
     THEN FallbackWebsiteData(dto, lastError, complexity)
     ELSE SavedWebsiteData(dto, e.art, complexity)) @@ [id |-> id]

ProducedByFallback == \E i \in EventsOf("create") : trace[i].info = "fallback"

-----------------------------------------------------------------------------
(* Claims *)

\* C1: a website row is created only from an artifact that validateComplexWebsite
\* accepted (isValid = true) in the same attempt, immediately before the create,
\* or from the fallback content; the rows of the table are exactly the rows of
\* these creates.
C1_PersistOnlyValidated ==
    /\ Len(websites) = Len(Creates)
    /\ \A k \in 1..Len(Creates) : websites[k] = RowOfCreate(Creates[k], k)
    /\ \A i \in EventsOf("create") :
          trace[i].info = "model" =>
             /\ i > 1
             /\ trace[i - 1] = Ev("verdict", trace[i].n, "valid", trace[i].art)
             /\ ~ValidateComplexWebsite(trace[i].art, complexity).raised
             /\ ValidateComplexWebsite(trace[i].art, complexity).isValid

\* C1 witness: a request that returned a row built from a model artifact.
C1_Witness ==
    /\ pc = "done"
    /\ outcome.kind = "result"
    /\ \E i \in EventsOf("create") : trace[i].info = "model"

\* the three attempts of the request each returned an artifact that failed validation
AllInvalid ==
    /\ Len(Verdicts) = 3
    /\ \A i \in 1..3 : Verdicts[i].info = "invalid"

\* C2 (as claimed): when every attempt returns an artifact that fails
\* validation, fallback synthesis is never invoked, nothing is persisted and
\* the request ends with the validation-failure error.
C2_ValidationExhaustionIsAnError ==
    AllInvalid =>
       /\ FallbackCalls = 0
       /\ websites = <<>>
       /\ pc = "done" => outcome.kind = "error"

\* the three attempts of the request each raised inside the strategy
AllRaised ==
    /\ Len(Verdicts) = 3
    /\ \A i \in 1..3 : Verdicts[i].info = "strategy_raised"

\* fallback synthesis is invoked at most once, directly after the third
\* strategy invocation ended in a failure
FallbackOnlyAfterThird ==
    /\ FallbackCalls <= 1
    /\ \A i \in EventsOf("fallback") :
          /\ Cardinality({j \in EventsOf("strategy") : j < i}) = 3
          /\ i > 1
          /\ trace[i - 1].n = 3
          /\ trace[i - 1].ev \in {"verdict", "create_raised"}

\* C3 (as claimed): when the strategy raises on every attempt it is invoked
\* exactly 3 times, fallback synthesis is invoked exactly once and only after
\* the third failure, and the request returns the fallback result.
C3_Original ==
    /\ FallbackOnlyAfterThird
    /\ AllRaised =>
          /\ StrategyCalls = 3
          /\ pc = "done" =>
                /\ FallbackCalls = 1
                /\ outcome.kind = "result"
                /\ outcome.website = FallbackWebsiteData(dto, lastError, complexity) @@ [id |-> 1]

\* C3 (amended): as claimed, except that the fallback result is returned
\* when the fallback's website create succeeds; when that create raises, the
\* request ends with that error and no row.
C3_FallbackAfterThreeRaises ==
    /\ FallbackOnlyAfterThird
    /\ AllRaised =>
          /\ StrategyCalls = 3
          /\ pc = "done" =>
                /\ FallbackCalls = 1
                /\ IF \E i \in EventsOf("create_raised") : trace[i].info = "fallback"
                   THEN outcome.kind = "error" /\ websites = <<>>
                   ELSE /\ outcome.kind = "result"
                        /\ outcome.website =
                              FallbackWebsiteData(dto, lastError, complexity) @@ [id |-> 1]
                        /\ websites = <<outcome.website>>

\* C3 witness: three raised attempts, then the fallback result returned.
C3_Witness ==
    /\ AllRaised
    /\ pc = "done"
    /\ outcome.kind = "result"
    /\ ProducedByFallback

\* every attempt that ended before event c ended by raising
OnlyRaisesBefore(c) ==
    \A i \in 1..(c - 1) :
       trace[i].ev = "verdict" =>
          \/ IsRaise(trace[i])
          \/ trace[i].info = "valid" /\ (i = c - 1 \/ trace[i + 1].ev = "create_raised")

\* C4: when attempts 1..k-1 raise and attempt k returns an artifact that passes
\* validation and is persisted, the strategy has been invoked exactly k times,
\* fallback synthesis is never invoked and the request returns the row built
\* from the attempt-k artifact.
C4_SuccessOnAttemptK ==
    \A c \in EventsOf("create") :
       (trace[c].info = "model" /\ OnlyRaisesBefore(c)) =>
          /\ trace[c].n \in 1..3
          /\ StrategyCalls = trace[c].n
          /\ FallbackCalls = 0
          /\ pc \in {"save_log", "done"}
          /\ pc = "done" =>
                outcome = Returned(SavedWebsiteData(dto, trace[c].art, complexity) @@ [id |-> 1])

\* C4 witness: two raised attempts, then a persisted third one, returned.
C4_Witness ==
    /\ pc = "done"
    /\ \E c \in EventsOf("create") :
          trace[c].info = "model" /\ trace[c].n = 3 /\ OnlyRaisesBefore(c)
    /\ \E i \in EventsOf("verdict") : trace[i].n = 1 /\ IsRaise(trace[i])

\* C5: a request terminates when every await returns; the attempt counter
\* stays in 1..3 and only ever grows by one; the strategy is invoked at most 3
\* times; at most 15 model calls are made for a complex request and at most 3
\* for a simple or moderate one.
C5_TerminationAndBounds ==
    /\ [](/\ attempt \in 1..3
          /\ StrategyCalls <= 3
          /\ complexity.level = "complex" => ModelCalls <= 15
          /\ complexity.level \in {"simple", "moderate"} => ModelCalls <= 3)
    /\ [][attempt' = attempt \/ attempt' = attempt + 1]_vars
    /\ (pc # "idle") ~> (pc = "done")

\* C5 witness: a complex request that ended after 15 model calls.
C5_Witness ==
    /\ pc = "done"
    /\ complexity.level = "complex"
    /\ ModelCalls = 15
    /\ StrategyCalls = 3

\* C6: the request creates exactly one website row when it returns a result
\* (model-generated or fallback) and none when it ends with an error.
C6_OneRecordPerResult ==
    /\ Len(websites) <= 1
    /\ pc = "done" =>
          /\ outcome.kind = "result" => websites = <<outcome.website>>
          /\ outcome.kind = "error" => websites = <<>>

\* C6 witness: a result returned after a website create had raised.
C6_Witness ==
    /\ pc = "done"
    /\ outcome.kind = "result"
    /\ EventsOf("create_raised") # {}

\* C7: a raise in attempt n < 3 is followed by exactly one backoff delay of
\* n x 2000 ms and then by attempt n+1; a raise in attempt 3 is followed by
\* fallback synthesis with no delay; no delay happens anywhere else.
C7_BackoffDelays ==
    /\ \A i \in DOMAIN trace :
          (IsRaise(trace[i]) /\ i < Len(trace)) =>
             IF trace[i].n < 3
             THEN /\ trace[i + 1] = Ev("backoff", trace[i].n * 2000, "", Undef)
                  /\ i + 1 < Len(trace) =>
                        /\ trace[i + 2].ev = "strategy"
                        /\ trace[i + 2].n = trace[i].n + 1
             ELSE trace[i + 1].ev = "fallback"
    /\ \A i \in EventsOf("backoff") : i > 1 /\ IsRaise(trace[i - 1])

\* C7 witness: delays of 2000 and 4000 were taken, then the fallback.
C7_Witness ==
    /\ \E i \in EventsOf("backoff") : trace[i].n = 2000
    /\ \E i \in EventsOf("backoff") : trace[i].n = 4000
    /\ FallbackCalls = 1

\* C8: an attempt n < 3 whose artifact fails validation persists nothing and
\* is followed directly by attempt n+1: no backoff delay, no fallback.
C8_InvalidRetriesAtOnce ==
    \A i \in EventsOf("verdict") :
       (trace[i].info = "invalid" /\ trace[i].n < 3) =>
          /\ \A j \in EventsOf("create") : trace[j].n # trace[i].n
          /\ i < Len(trace) => trace[i + 1] = Ev("strategy", trace[i].n + 1, complexity.level, Undef)
          /\ i = Len(trace) => pc = "loop" /\ attempt = trace[i].n + 1

\* C8 witness: a failed validation in attempt 2 followed by attempt 3.
C8_Witness ==
    \E i \in EventsOf("verdict") :
       trace[i].info = "invalid" /\ trace[i].n = 2 /\ i < Len(trace)

\* metadata.isFallback of a returned row is true
FlaggedFallback(w) ==
    LET f == Get(w.metadata, "isFallback") IN f.t = "boolean" /\ f.v

\* C9 (as claimed): a returned row has metadata.isFallback true exactly when
\* fallback synthesis produced it, and then fallbackReason is the message of
\* the last error, or 'AI generation failed' when that error has no message.
C9_IsFallbackIffFallback ==
    (pc = "done" /\ outcome.kind = "result") =>
       /\ FlaggedFallback(outcome.website) <=> ProducedByFallback
       /\ ProducedByFallback =>
             Get(outcome.website.metadata, "fallbackReason") =
                Str(IF lastError.message # "" THEN lastError.message
                    ELSE "AI generation failed")

\* a step taken where logGeneration is called ends the request with the row
\* already created
LogStepKeepsOutcome ==
    pc \in {"save_log", "fallback_log"} =>
       (/\ pc' = "done"
        /\ outcome' = Returned(created)
        /\ websites' = websites
        /\ created = websites[Len(websites)])

\* C10: the outcome of the log write does not change the outcome of the
\* request: from the point where logGeneration is called the request ends
\* with the row already created, the table of websites unchanged, whether the
\* log write returns or raises.
C10_LogFailureIsSwallowed ==
    [][LogStepKeepsOutcome]_vars

\* C10 witness: a request that returned its row although the log write raised.
C10_Witness ==
    /\ pc = "done"
    /\ outcome.kind = "result"
    /\ EventsOf("log_raised") # {}
    /\ \E i \in EventsOf("create") : trace[i].info = "model"

\* keyword kw occurs in prompt at position i, letters compared without case
OccursAt(prompt, kw, i) ==
    \A j \in 1..Len(kw) :
       LowerChar(SubSeq(prompt, i + j - 1, i + j - 1)) = SubSeq(kw, j, j)

\* keyword kw occurs in prompt as a case-insensitive substring
Occurs(prompt, kw) ==
    \E i \in 1..(Len(prompt) - Len(kw) + 1) : OccursAt(prompt, kw, i)

\* the rules of the table of which a keyword occurs in the prompt
RulesPresent(prompt) ==
    {i \in RuleIds : Occurs(prompt, ComplexityRules[i].k1) \/ Occurs(prompt, ComplexityRules[i].k2)}

RECURSIVE SumOfWeights(_)
SumOfWeights(S) ==
    IF S = {} THEN 0
    ELSE LET i == CHOOSE j \in S : TRUE IN ComplexityRules[i].w + SumOfWeights(S \ {i})

\* the weight the claim gives each tag
ClaimedWeight ==
    [ecommerce |-> 3, shopping_cart |-> 2, product_catalog |-> 2, carousel |-> 2,
     modal |-> 1, animations |-> 2, dashboard |-> 3, multi_page |-> 2,
     advanced_styling |-> 1, responsive |-> 1, authentication |-> 2, user_management |-> 2]

\* C12: for every analyzed prompt a tag is among the features exactly when
\* one of its keywords occurs in the prompt as a case-insensitive substring,
\* no tag appears twice, and the score is the sum of the claimed weights of
\* the tags present; a prompt without keywords gives simple, 0 and no
\* features; a prompt with 'e-commerce' and 'cart' in any casing gives both
\* ecommerce and shopping_cart and a score of at least 5.
C12_AnalyzerAgreesWithRules ==
    pc = "analyzed" =>
       LET f == complexity.features
           present == RulesPresent(dto.prompt)
       IN /\ \A i \in RuleIds : SeqIncludes(f, ComplexityRules[i].tag) <=> i \in present
          /\ \A a, b \in 1..Len(f) : a # b => f[a] # f[b]
          /\ \A a \in 1..Len(f) : f[a] \in DOMAIN ClaimedWeight
          /\ complexity.score = SumOfWeights(present)
          /\ \A i \in RuleIds : ComplexityRules[i].w = ClaimedWeight[ComplexityRules[i].tag]
          /\ present = {} =>
                complexity = [level |-> "simple", features |-> <<>>, score |-> 0]
          /\ (Occurs(dto.prompt, "e-commerce") /\ Occurs(dto.prompt, "cart")) =>
                /\ SeqIncludes(f, "ecommerce") /\ SeqIncludes(f, "shopping_cart")
                /\ complexity.score >= 5

\* C12 witness: a prompt that names e-commerce and cart with capitals,
\* analyzed to exactly these two tags.
C12_Witness ==
    /\ pc = "analyzed"
    /\ dto.prompt = "Please build a site E-Commerce Cart"
    /\ complexity.features = <<"ecommerce", "shopping_cart">>
    /\ complexity.score = 5

\* the tier the claim gives a score
ClaimedTier(n) ==
    CASE n >= 8 -> "complex"
      [] n >= 4 /\ n <= 7 -> "moderate"
      [] n <= 3 -> "simple"

\* C13: the tier of every analyzed prompt is the one its score alone gives:
\* complex iff score >= 8, moderate iff 4 <= score <= 7, simple iff score <= 3,
\* and so for every score from 0 to the sum of all weights.
C13_TierBoundaries ==
    /\ pc = "analyzed" =>
          /\ complexity.score \in 0..SumOfWeights(RuleIds)
          /\ complexity.level = ClaimedTier(complexity.score)
    /\ \A n \in 0..SumOfWeights(RuleIds) : LevelOf(n) = ClaimedTier(n)
    /\ LevelOf(3) = "simple" /\ LevelOf(4) = "moderate"
    /\ LevelOf(7) = "moderate" /\ LevelOf(8) = "complex"

\* C13 witness: a prompt of score exactly 8, analyzed as complex.
C13_Witness ==
    /\ pc = "analyzed"
    /\ complexity.score = 8
    /\ complexity.level = "complex"

\* the model calls of the history made in attempt n
ModelCallsOf(n) == {i \in EventsOf("model") : trace[i].n = n}

\* C14: the tier is the one analyzePromptComplexity gives the request's
\* prompt and stays the same for the whole request; every attempt of a
\* complex request calls the model for the five steps only, every attempt of
\* a simple or moderate request makes the one single-shot call; the
\* e-commerce dashboard prompt is complex with the four expected features.
C14_StrategyByTier ==
    pc # "idle" =>
       /\ complexity = AnalyzePromptComplexity(dto.prompt)
       /\ \A i \in EventsOf("strategy") : trace[i].info = complexity.level
       /\ \A i \in EventsOf("model") :
             IF complexity.level = "complex"
             THEN trace[i].info \in StepNames
             ELSE /\ complexity.level \in {"simple", "moderate"}
                  /\ trace[i].info = "single"
                  /\ Cardinality(ModelCallsOf(trace[i].n)) = 1
       /\ \A i \in EventsOf("verdict") :
             (complexity.level = "complex" /\ trace[i].info \in {"valid", "invalid", "validation_raised"})
                => Cardinality(ModelCallsOf(trace[i].n)) = Len(Steps)
       /\ dto.prompt = "Create an e-commerce dashboard with login and a product carousel" =>
             /\ {"ecommerce", "dashboard", "authentication", "carousel"}
                   \subseteq {complexity.features[k] : k \in 1..Len(complexity.features)}
             /\ complexity.level = "complex"
             /\ complexity.score >= 8
             /\ \A i \in EventsOf("model") : trace[i].info \in StepNames

\* C14 witness: the e-commerce dashboard request in its second attempt, after
\* the five steps of the first.
C14_Witness ==
    /\ dto.prompt = "Create an e-commerce dashboard with login and a product carousel"
    /\ attempt = 2
    /\ Cardinality(ModelCallsOf(1)) = 5
    /\ Cardinality(ModelCallsOf(2)) >= 1

\* the positions in the history of the model calls of attempt n, in order
ModelCallSeq(n) ==
    SelectSeq([i \in 1..Len(trace) |-> i],
              LAMBDA i : trace[i].ev = "model" /\ trace[i].n = n)

\* the errors with which a model call can reject before a response exists
ApiErrors == {Err(f.message) : f \in {g \in ModelFailures : g.kind = "throw"}}

\* the errors a step raises for a response without content or one that does not parse
StepErrors(name) ==
    {Err("AI service did not return content for step: " \o name)}
    \cup {Err("Invalid response format for step " \o name \o ": " \o f.message) :
             f \in {g \in ModelFailures : g.kind = "unparseable"}}

\* C15: in a multi-step attempt the model calls are the steps in their fixed
\* order, each after the previous step has completed; a step that fails
\* raises an error (for no content and for unparseable content one naming
\* the step), no later step runs, nothing is assembled and the attempt has
\* the one verdict strategy_raised.
C15_StepsInOrder ==
    complexity.level = "complex" =>
       /\ \A n \in 1..MaxAttempts :
             /\ Len(ModelCallSeq(n)) <= Len(Steps)
             /\ \A k \in 1..Len(ModelCallSeq(n)) :
                   trace[ModelCallSeq(n)[k]].info = Steps[k]
             /\ Cardinality({j \in EventsOf("verdict") : trace[j].n = n}) <= 1
       /\ \A i \in EventsOf("model") :
             /\ i < Len(trace) =>
                   \/ trace[i + 1] = Ev("step_delay", StepDelayMs, trace[i].info, Undef)
                   \/ trace[i + 1] = Ev("verdict", trace[i].n, "strategy_raised", Undef)
             /\ (i > 1 /\ trace[i].info # Steps[1]) =>
                   /\ trace[i - 1].ev = "step_delay"
                   /\ i > 2 /\ trace[i - 2].ev = "model" /\ trace[i - 2].n = trace[i].n
       /\ \A j \in EventsOf("verdict") :
             trace[j].info = "strategy_raised" =>
                /\ j > 1 /\ trace[j - 1].ev = "model" /\ trace[j - 1].n = trace[j].n
                /\ \A i \in EventsOf("model") : trace[i].n = trace[j].n => i < j
                /\ j < Len(trace) => trace[j + 1].ev \in {"backoff", "fallback"}
                /\ j = Len(trace) =>
                      /\ pc \in {"catch", "backoff"}
                      /\ (IF pc = "catch" THEN thrown ELSE lastError)
                            \in ApiErrors \cup StepErrors(trace[j - 1].info)
                      /\ result = Undef
                      /\ results = EmptyObj

\* C15 witness: the third step returned content that does not parse, after
\* two completed steps, and the attempt has raised the error naming it.
C15_Witness ==
    /\ pc = "catch"
    /\ thrown = Err("Invalid response format for step advanced_features: Unexpected end of JSON input")
    /\ Len(ModelCallSeq(attempt)) = 3
    /\ trace[Len(trace)] = Ev("verdict", attempt, "strategy_raised", Undef)

\* C16: whenever validateComplexWebsite returns, isValid is true exactly
\* when the errors list is empty, whatever the warnings; errors and warnings
\* are the lists of the structural, per-component, feature and code-quality
\* checks in this order, and the score is the sum of the four scores.
C16_ValidityIsNoErrors ==
    pc = "validated" =>
       /\ validationResult.isValid <=> validationResult.errors = <<>>
       /\ validationResult.errors =
             ValidateBasicStructure(result).errors \o ValidateComponents(result, complexity).errors
             \o ValidateFeatures(result, complexity).errors \o ValidateCodeQuality(result).errors
       /\ validationResult.warnings =
             ValidateBasicStructure(result).warnings \o ValidateComponents(result, complexity).warnings
             \o ValidateFeatures(result, complexity).warnings \o ValidateCodeQuality(result).warnings
       /\ validationResult.score =
             ValidateBasicStructure(result).score + ValidateComponents(result, complexity).score
             + ValidateFeatures(result, complexity).score + ValidateCodeQuality(result).score

\* C16 witness: an artifact found valid although the checks gave warnings.
C16_Witness ==
    /\ pc = "validated"
    /\ validationResult.isValid
    /\ Len(validationResult.warnings) >= 2
    /\ validationResult.score > 0

\* the validator was called on the artifact in `result` and has returned or raised
ValidatorCalled == pc \in {"validated", "validator_raised"}

\* the validator returned a result with isValid = false
FoundInvalid == pc = "validated" /\ ~validationResult.isValid

\* the component map of the artifact in `result`
ArtifactComponents == Get(Get(result, "nextjsContent"), "components")

\* some component key of the artifact contains the word, letters compared without case
HasKeyWith(word) == \E k \in Keys(ArtifactComponents) : Occurs(k, word)

\* C17 (as claimed): on every artifact without global styles (globals.css
\* absent or empty) validateComplexWebsite returns isValid = false with an
\* error that mentions the missing styles, whatever else the artifact holds
\* and whatever the profile.
C17_MissingStylesIsInvalid ==
    (ValidatorCalled /\ ~Truthy(Get(Get(result, "nextjsContent"), "globals.css"))) =>
       /\ FoundInvalid
       /\ \E k \in 1..Len(validationResult.errors) :
             Includes(validationResult.errors[k], "globals.css")

\* the errors of the e-commerce check
EcommerceErrors == {"Missing product display component for e-commerce",
                    "Missing shopping cart component for e-commerce"}

\* C18 (as claimed): with ecommerce among the profile's features the
\* validator returns isValid = false for every artifact with no component key
\* containing 'cart' and for every artifact with no component key containing
\* 'product'; a missing checkout or payment component only adds a warning;
\* without ecommerce in the profile none of these errors is produced.
C18_EcommerceNeedsCartAndProduct ==
    ValidatorCalled =>
       IF SeqIncludes(complexity.features, "ecommerce")
       THEN /\ (~HasKeyWith("cart") \/ ~HasKeyWith("product")) => FoundInvalid
            /\ (HasKeyWith("cart") /\ HasKeyWith("product")
                 /\ ~HasKeyWith("checkout") /\ ~HasKeyWith("payment")) =>
                  /\ pc = "validated"
                  /\ \A k \in 1..Len(validationResult.errors) :
                        validationResult.errors[k] \notin EcommerceErrors
                  /\ SeqIncludes(validationResult.warnings,
                        "Consider adding checkout component for complete e-commerce flow")
       ELSE pc = "validated" =>
               \A k \in 1..Len(validationResult.errors) :
                  validationResult.errors[k] \notin EcommerceErrors

\* C20 (as claimed): validateComplexWebsite never raises; an artifact
\* without nextjsContent, or without a components map, gets isValid = false
\* with the corresponding error.
C20_ValidatorNeverRaises ==
    ValidatorCalled =>
       /\ pc = "validated"
       /\ ~Truthy(Get(result, "nextjsContent")) =>
             /\ ~validationResult.isValid
             /\ SeqIncludes(validationResult.errors, "Missing nextjsContent")
       /\ (Truthy(Get(result, "nextjsContent")) /\ ~Truthy(ArtifactComponents)) =>
             /\ ~validationResult.isValid
             /\ SeqIncludes(validationResult.errors, "Missing components")

\* the content fallback synthesis builds for the request at hand, as an
\* artifact handed to the validator
FallbackArtifact == Obj("nextjsContent" :> FallbackContent(dto, complexity))

\* C19: for every request and last error the content of fallback synthesis
\* has a non-empty page.tsx, layout.tsx and globals.css and a components map
\* with a Header and a Footer, the structural check reports no error on it,
\* and it is the content of the row the fallback creates.
C19_FallbackPassesStructure ==
    pc \in {"fallback_create", "fallback_log", "done"} =>
       LET c == FallbackContent(dto, complexity)
       IN /\ \A k \in {"page.tsx", "layout.tsx", "globals.css"} :
                Get(c, k).t = "string" /\ Len(Get(c, k).v) > 0
          /\ \E k \in Keys(Get(c, "components")) : Includes(k, "Header")
          /\ \E k \in Keys(Get(c, "components")) : Includes(k, "Footer")
          /\ \A k \in Keys(Get(c, "components")) : Truthy(Get(Get(c, "components"), k))
          /\ ValidateBasicStructure(FallbackArtifact).errors = <<>>
          /\ ValidateBasicStructure(FallbackArtifact).isValid
          /\ ProducedByFallback => created.htmlContent = Stringify(c)

\* C19 witness: a fallback row was created for a request with an empty
\* title and no description, after an error without message.
C19_Witness ==
    /\ pc = "done"
    /\ outcome.kind = "result"
    /\ dto.title = Str("") /\ dto.description = Undef
    /\ lastError = Err("")
    /\ created.htmlContent = Stringify(FallbackContent(dto, complexity))

-----------------------------------------------------------------------------
(* Two concurrent calls *)

\* the attempts a call has begun, by its own history
AttemptsBegun(l) == Cardinality({i \in DOMAIN l.trace : l.trace[i].ev = "strategy"})

\* the errors a call has raised inside the try block, by its own history
RaisedInTry(l) ==
    {i \in DOMAIN l.trace :
        \/ l.trace[i].ev = "verdict"
             /\ l.trace[i].info \in {"strategy_raised", "validation_raised"}
        \/ l.trace[i].ev = "verdict" /\ l.trace[i].info = "invalid"
             /\ ValidationExhausted(l.trace[i].n)
        \/ l.trace[i].ev = "create_raised" /\ l.trace[i].info = "model"
        \/ l.trace[i].ev = "log_raised" /\ l.trace[i].info = "model"
             /\ LogGeneration(FALSE) = "raised"}

\* the errors of a call that its catch block has handled
HandledByCatch(l) == Cardinality(RaisedInTry(l)) - (IF l.pc = "catch" THEN 1 ELSE 0)

\* the row a call has created is the one its own request, its own validated
\* artifact or its own last error, and its own complexity determine
OwnRow(l) ==
    /\ l.created.id \in DOMAIN websites
    /\ websites[l.created.id] = l.created
    /\ \E i \in DOMAIN l.trace :
          /\ l.trace[i].ev = "create"
          /\ \A j \in DOMAIN l.trace : l.trace[j].ev = "create" => j <= i
          /\ l.created =
                (IF l.trace[i].info = "model"
                 THEN SavedWebsiteData(l.dto, l.trace[i].art, l.complexity)
                 ELSE FallbackWebsiteData(l.dto, l.lastError, l.complexity))
                @@ [id |-> l.created.id]

\* what the locals of one call are, read from that call alone
OwnProgressOnly(l) ==
    IF l.pc = "idle" THEN l = IdleLocals
    ELSE
      /\ \E i \in DOMAIN ConcDtos : l.dto = ConcDtos[i] /\ l.complexity = ConcComplexities[i]
      /\ \A i \in DOMAIN l.trace :
            l.trace[i].ev = "strategy" =>
               /\ l.trace[i].info = l.complexity.level
               /\ l.trace[i].n = Cardinality({j \in 1..i : l.trace[j].ev = "strategy"})
               /\ i < Len(l.trace) =>
                     l.trace[i + 1] =
                        Ev("model", l.trace[i].n,
                           IF StrategyFor(l.complexity.level) = "single-shot"
                           THEN "single" ELSE Steps[1], Undef)
      /\ l.attempt = AttemptsBegun(l) + (IF l.pc = "loop" THEN 1 ELSE 0)
      /\ (l.lastError = NoError) <=> (HandledByCatch(l) = 0)
      /\ \A i \in DOMAIN l.trace :
            l.trace[i].ev = "fallback" =>
               /\ l.trace[i].n = MaxAttempts
               /\ l.trace[i].info = FallbackReason(l.lastError)
      /\ l.created # NoWebsite => OwnRow(l)
      /\ l.pc = "done" =>
            IF \E i \in DOMAIN l.trace : l.trace[i].ev = "create_raised"
                                          /\ l.trace[i].info = "fallback"
            THEN l.outcome = Rejected(Err("Can't reach database server"))
            ELSE l.outcome = Returned(l.created) /\ l.created # NoWebsite
      /\ l.pc # "done" => l.outcome = NoOutcome

\* C11: two generateWebsite calls running concurrently on one service
\* instance do not interfere: in every state of every interleaving, the
\* attempt counter, the last error, the chosen strategy and the outcome of
\* each call are the ones its own request and the responses to its own
\* model and database calls determine, and every website row is the row of
\* exactly one create of one of the two calls.
C11_ConcurrentCallsDoNotInterfere ==
    /\ OwnProgressOnly(Locals)
    /\ OwnProgressOnly(peer)
    /\ Len(websites) =
          Cardinality({i \in DOMAIN trace : trace[i].ev = "create"})
          + Cardinality({i \in DOMAIN peer.trace : peer.trace[i].ev = "create"})
    /\ (created # NoWebsite /\ peer.created # NoWebsite) => created.id # peer.created.id

\* C11 witness: both calls are in flight at once, the suspended one in its
\* last attempt on the multi-step strategy with an error behind it, the
\* running one in its first attempt on the single-shot strategy with none
C11_Witness ==
    /\ pc \notin {"idle", "done"}
    /\ peer.pc \notin {"idle", "done"}
    /\ attempt = 1 /\ lastError = NoError
    /\ StrategyFor(complexity.level) = "single-shot"
    /\ peer.attempt = MaxAttempts /\ peer.lastError # NoError
    /\ StrategyFor(peer.complexity.level) = "multi-step"
    /\ Len(websites) >= 1

-----------------------------------------------------------------------------
(* WebsiteService *)

\* a call of findOne, update or remove begins in this step
LookupStep(c) ==
    /\ calls[c].pc = "idle"
    /\ calls'[c].pc # "idle"
    /\ calls'[c].op \in {"findOne", "update", "remove"}

\* every row but the one with this id is in the table before and after, unchanged
OtherRowsKept(id) ==
    /\ DOMAIN table' \ {id} = DOMAIN table \ {id}
    /\ \A i \in DOMAIN table \ {id} : table'[i] = table[i]

AskedPage(query) == IF query.page = Undef THEN 1 ELSE query.page.v
AskedLimit(query) == IF query.limit = Undef THEN 10 ELSE query.limit.v

\* findAll calls that have returned
ReturnedFindAll == {c \in Sequential : calls[c].op = "findAll" /\ calls[c].pc = "done"}

\* C22: for every page >= 1 and limit in 1..100 (defaults 1 and 10), findAll
\* returns the matching websites newest first restricted to the positions
\* (page-1)*limit .. page*limit-1; meta.page and meta.limit echo the query,
\* meta.total is the number of matching websites, meta.totalPages is
\* ceil(total/limit), meta.hasNext holds iff page < totalPages and
\* meta.hasPrev iff page > 1.
C22_Pagination ==
    \A c \in ReturnedFindAll :
       \E page \in {AskedPage(calls[c].query)}, limit \in {AskedLimit(calls[c].query)},
          matching \in {MatchingIds(BuildWhere(calls[c].query))},
          data \in {calls[c].response.value.data},
          meta \in {calls[c].response.value.meta} :
             /\ page >= 1 /\ limit \in 1..100
             /\ meta.page = page
             /\ meta.limit = limit
             /\ meta.total = Cardinality(matching)
             /\ meta.totalPages * limit >= meta.total
             /\ (meta.totalPages - 1) * limit < meta.total
             /\ meta.hasNext <=> (page < meta.totalPages)
             /\ meta.hasPrev <=> (page > 1)
             /\ Len(data) = Cardinality({q \in 0..(meta.total - 1) :
                                            (page - 1) * limit <= q /\ q <= page * limit - 1})
             /\ \E s \in NewestFirst(matching) :
                   \A k \in DOMAIN data : data[k] = table[s[(page - 1) * limit + k]]

\* C22 witness: the second page of two, with limit 2, of three websites: one
\* website, nothing after it, a page before it
C22_Witness ==
    \E c \in ReturnedFindAll :
       /\ calls[c].query.page = Num(2)
       /\ calls[c].query.limit = Num(2)
       /\ calls[c].response.value.meta.total = 3
       /\ calls[c].response.value.meta.totalPages = 2
       /\ Len(calls[c].response.value.data) = 1
       /\ ~calls[c].response.value.meta.hasNext
       /\ calls[c].response.value.meta.hasPrev

\* a row passes every filter the query supplies
PassesSuppliedFilters(query, row) ==
    /\ Truthy(query.search) =>
          \/ ContainsInsensitive(row["title"], query.search.v)
          \/ ContainsInsensitive(row["description"], query.search.v)
    /\ query.isPublic # Undef => row["isPublic"] = query.isPublic
    /\ Truthy(query.category) => Get(row["metadata"], "category") = query.category
    /\ Truthy(query.theme) => Get(row["metadata"], "theme") = query.theme

\* C23: every filter supplied to findAll is applied: every returned website
\* passes the search, isPublic, category and theme filters that were given
\* (category and theme together when both are given), and meta.total counts
\* exactly the websites that pass them.
C23_EveryFilterApplied ==
    \A c \in ReturnedFindAll :
       /\ \A k \in DOMAIN calls[c].response.value.data :
             PassesSuppliedFilters(calls[c].query, calls[c].response.value.data[k])
       /\ calls[c].response.value.meta.total =
             Cardinality({i \in DOMAIN table : PassesSuppliedFilters(calls[c].query, table[i])})

\* update and remove calls that have ended
EndedWrites == {c \in Callers : calls[c].pc = "done" /\ calls[c].op \in {"update", "remove"}}

\* C30: under concurrent calls on the same id, update and remove each
\* either complete their write or raise NotFoundException: the call that
\* loses the race observes NotFoundException, and no write is ever sent for
\* a record that no longer exists.
C30_WriteOrNotFound ==
    \A c \in EndedWrites :
       \/ /\ calls[c].response.kind = "returned"
          /\ Len(calls[c].sent) = 1
          /\ calls[c].sent[1].hit
       \/ /\ calls[c].response = Threw(NotFoundException(calls[c].id))
          /\ calls[c].sent = <<>>

-----------------------------------------------------------------------------
(* The validator, continued *)

\* some component key of the artifact contains the word, letters compared as they are
HasFragmentNamed(word) == \E k \in Keys(ArtifactComponents) : Includes(k, word)

\* the errors of the required-component check
RequiredComponentErrors ==
    {"Missing required component: Header", "Missing required component: Footer"}

\* C24: for a complex-tier profile validateComplexWebsite reports an error,
\* and so isValid = false, for every assembled artifact (one with a
\* nextjsContent object, as combineGenerationResults always builds) that has
\* no fragment whose name contains 'Header' or none whose name contains
\* 'Footer'; when the artifact has a components map the error names the
\* missing fragment.  For simple and moderate profiles no such error is
\* ever reported.
C24_ComplexNeedsHeaderAndFooter ==
    ValidatorCalled =>
       IF complexity.level = "complex"
       THEN Truthy(Get(result, "nextjsContent")) =>
               /\ (~HasFragmentNamed("Header") \/ ~HasFragmentNamed("Footer")) => FoundInvalid
               /\ (Truthy(ArtifactComponents) /\ ~HasFragmentNamed("Header")) =>
                     SeqIncludes(validationResult.errors, "Missing required component: Header")
               /\ (Truthy(ArtifactComponents) /\ ~HasFragmentNamed("Footer")) =>
                     SeqIncludes(validationResult.errors, "Missing required component: Footer")
               /\ (HasFragmentNamed("Header") /\ HasFragmentNamed("Footer")) =>
                     \A k \in 1..Len(validationResult.errors) :
                        validationResult.errors[k] \notin RequiredComponentErrors
       ELSE pc = "validated" =>
               \A k \in 1..Len(validationResult.errors) :
                  validationResult.errors[k] \notin RequiredComponentErrors

\* C24 witness: a complex profile and an artifact with page, layout and
\* styles whose only fragment is the header: invalid, with the footer error
\* and without the header error
C24_Witness ==
    /\ pc = "validated"
    /\ complexity.level = "complex"
    /\ HasFragmentNamed("Header") /\ ~HasFragmentNamed("Footer")
    /\ Truthy(Get(Get(result, "nextjsContent"), "page.tsx"))
    /\ Truthy(Get(Get(result, "nextjsContent"), "globals.css"))
    /\ SeqIncludes(validationResult.errors, "Missing required component: Footer")
    /\ ~SeqIncludes(validationResult.errors, "Missing required component: Header")
    /\ ~SeqIncludes(validationResult.errors, "Missing components")
    /\ ~validationResult.isValid

\* a part of the artifact in `result` is there: present and not empty
PartPresent(key) == Truthy(Get(Get(result, "nextjsContent"), key))

\* the number of fragments of the artifact in `result`
FragmentCount == Cardinality(Keys(ArtifactComponents))

\* the structural check's error for each part, by what the claim says:
\* one error for each missing part, and the score of the parts present
StructureAsClaimed(b) ==
    /\ b.errors =
          (IF PartPresent("page.tsx") THEN <<>> ELSE <<"Missing main page.tsx">>)
          \o (IF PartPresent("layout.tsx") THEN <<>> ELSE <<"Missing layout.tsx">>)
          \o (IF PartPresent("globals.css") THEN <<>> ELSE <<"Missing globals.css">>)
          \o (IF FragmentCount >= 1 THEN <<>> ELSE <<"Missing components">>)
    /\ b.score = 10 * (IF PartPresent("page.tsx") THEN 1 ELSE 0)
                 + 10 * (IF PartPresent("layout.tsx") THEN 1 ELSE 0)
                 + 5 * (IF PartPresent("globals.css") THEN 1 ELSE 0)
                 + 15 * (IF FragmentCount >= 1 THEN 1 ELSE 0)
    /\ FragmentCount \in {1, 2} =>
          /\ SeqIncludes(b.warnings, "Consider adding more components for better structure")
          /\ ~SeqIncludes(b.errors, "Missing components")
    /\ b.isValid <=> b.errors = <<>>

-----------------------------------------------------------------------------
(* The multi-step assembler *)

\* the fragment map the assembler reads from `results` for one source
SourceFragments(source) ==
    Get(Get(Get(Get(results, "projectStructure"), "projectStructure"), "components"), source)

\* C26: when combineGenerationResults merges the fragment maps and two
\* sources define the same key, the value of the source merged later wins
\* (order: ui, layout, features); the merged components map holds every key
\* of every source map and no other key.
C26_LastSourceWins ==
    pc = "combined" =>
       /\ Keys(ArtifactComponents) =
             Keys(SourceFragments("ui")) \cup Keys(SourceFragments("layout"))
             \cup Keys(SourceFragments("features"))
       /\ \A k \in Keys(ArtifactComponents) :
             ArtifactComponents.v[k] =
                IF k \in Keys(SourceFragments("features")) THEN SourceFragments("features").v[k]
                ELSE IF k \in Keys(SourceFragments("layout")) THEN SourceFragments("layout").v[k]
                ELSE SourceFragments("ui").v[k]

\* C26 witness: Header.tsx defined by all three sources and Button.tsx by ui
\* and layout only: the merged map gives Header.tsx to features and
\* Button.tsx to layout
C26_Witness ==
    /\ pc = "combined"
    /\ Keys(SourceFragments("ui")) = {"Button.tsx", "Header.tsx"}
    /\ Keys(SourceFragments("layout")) = {"Button.tsx", "Header.tsx"}
    /\ Keys(SourceFragments("features")) = {"Header.tsx"}
    /\ ArtifactComponents =
          Obj(("Header.tsx" :> Str("features")) @@ ("Button.tsx" :> Str("layout")))

-----------------------------------------------------------------------------
(* Response cleaning *)

\* the JSON object texts a completion can be read as: the text between an
\* optional preamble and opening fence and an optional closing fence and
\* postamble
JsonTextsOf(text) ==
    {c \in JsonTexts :
        \E a \in Preambles, b \in OpeningFences, d \in ClosingFences, e \in Postambles :
           text = a \o b \o c \o d \o e}

\* C27 (as claimed): cleanAIResponse maps every response of the form
\* preamble + optional opening code fence + JSON object text + optional
\* closing code fence + postamble (no '{' in the preamble, no '}' in the
\* postamble) to exactly the JSON object text, is the identity on a bare
\* JSON object text, and is idempotent.
C27_CleaningGivesTheJsonText ==
    /\ pc = "cleaned" =>
          /\ \A c \in JsonTextsOf(response) : cleanedResponse = c
          /\ response \in JsonTexts => cleanedResponse = response
    /\ pc = "cleaned_again" => cleanedResponse = response

-----------------------------------------------------------------------------
(* Multi-step generation with well-formed steps *)

\* the local `results` of generateComplexWebsite when each of the five steps
\* has returned the object its prompt asks for
WellFormedResults == Obj([n \in StepNames |-> WellFormedStep(n)])

\* the artifact generateComplexWebsite is about to assemble: the last step
\* has returned and all five outputs are the well-formed ones
AboutToCombineWellFormed ==
    /\ pc = "step_delay"
    /\ stepIdx = Len(Steps)
    /\ StrategyFor(complexity.level) = "multi-step"
    /\ results = WellFormedResults

\* C28 (as claimed): for a request of the multi-step tier whose five steps
\* all return well-formed JSON in the shape their prompts ask for, the
\* artifact assembled from them has the page, the layout and the global
\* styles of the step outputs (none of them empty) and is accepted by the
\* validator, so that it is persisted without fallback.
C28_WellFormedStepsGiveModelSuccess ==
    AboutToCombineWellFormed =>
        \E art \in {CombineGenerationResults(results, complexity)} :
           /\ Get(Get(art, "nextjsContent"), "page.tsx") = Str(PageCode)
           /\ Get(Get(art, "nextjsContent"), "layout.tsx") = Str(LayoutCode)
           /\ Get(Get(art, "nextjsContent"), "globals.css") = Str(CssCode)
           /\ Accepted(ValidationResultOf(art, complexity))

-----------------------------------------------------------------------------
(* After a validated artifact *)

\* the positions of the history at which an artifact passed validation
ValidVerdicts == {i \in DOMAIN trace : trace[i].ev = "verdict" /\ trace[i].info = "valid"}

\* C29 (as claimed): once an attempt of a generateWebsite request has produced
\* an artifact that passed validation, the request makes no further model call
\* and synthesises no fallback, also when persisting the artifact fails; it
\* ends with the record of that artifact or with an error.
C29_ValidatedArtifactEndsTheRequest ==
    \A i \in ValidVerdicts :
       /\ \A j \in DOMAIN trace :
             j > i => trace[j].ev \notin {"model", "fallback"}
       /\ pc = "done" =>
             \/ outcome.kind = "error"
             \/ /\ outcome.kind = "result"
                /\ outcome.website.htmlContent
                      = Stringify(Get(trace[i].art, "nextjsContent"))

====
